---- MODULE Spec2Model ----
(***************************************************************************)
(* The local ledger subsystem of lottie-animation-search: the              *)
(* MetricsCollector (metrics/collector.ts), the IssueCollector             *)
(* (metrics/issues.ts) and the storage functions they call                 *)
(* (metrics/storage.ts).                                                   *)
(*                                                                         *)
(* A collector owns an in-memory document, an initialized flag and a write *)
(* queue (a promise chain).  record/report are synchronous; a flush        *)
(* (persistToDisk) is an async function with two suspension points, the    *)
(* await of ensureMetricsDir and the await of writeFile, so other code of  *)
(* the process (a record call, for one) runs between its steps.            *)
(*                                                                         *)
(* The two collectors share no state: each has its own document, queue and *)
(* file.  A behaviour follows one of them (focus), so the reachable states *)
(* are the sum, not the product, of the two state spaces.                  *)
(*                                                                         *)
(* The style store (styles/config.ts) keeps two config files, one per      *)
(* scope, and one module-level object, DEFAULT_CONFIG.  Its mutations are  *)
(* unqueued read-modify-write cycles that suspend in writeConfigFile       *)
(* (SpecStyles).  The tool wrapper (tools/wrapper.ts) is the caller of     *)
(* record in a running server (SpecWrapper).                               *)
(*                                                                         *)
(* createServer (server.ts) builds the collectors and the wrapper when     *)
(* metrics are enabled (SpecServer).  trimInvocationsForSize is also       *)
(* followed pass by pass on documents and limits of its own (SpecTrim,     *)
(* SpecTrimFair), and the style store from absent files (SpecStylesFresh). *)
(***************************************************************************)
EXTENDS Integers, Sequences, FiniteSets, TLC

VARIABLES
    focus,            \* "metrics" | "issues" | "styles" | "server" | "trim": what this behaviour follows
    now,              \* the clock that new Date() reads
    disk,             \* path -> file content
    data,             \* MetricsCollector.data
    initialized,      \* MetricsCollector.initialized
    maxSizeBytes,     \* MetricsCollector.maxSizeBytes
    writeQueue,       \* MetricsCollector.writeQueue: the flush tasks chained so far
    initPc,           \* position of MetricsCollector.initialize
    issuesData,       \* IssueCollector.data
    issuesInitialized,\* IssueCollector.initialized
    issuesWriteQueue, \* IssueCollector.writeQueue
    issuesInitPc,     \* position of IssueCollector.initialize
    recorded,         \* history: the invocations record() has appended, in order
    loaded,           \* history: the document initialize() installed
    lastCall,         \* history: the last record/report call and how it returned
    styleFiles,       \* scope -> content of that scope's lottie-styles.json
    DEFAULT_CONFIG,   \* styles/config.ts: the module's DEFAULT_CONFIG object
    inFlight,         \* style mutations between their read and the end of their write
    styleCalls,       \* history: style mutations and file edits made so far
    lastStyle,        \* history: the last style store call that returned, and its result
    lastWrapped,      \* history: the last call of a wrapped tool handler
    server,           \* createServer: its position, its collectors, the tools registered
    trim              \* a call of trimInvocationsForSize: its document, limit and position

vars == <<focus, now, disk, data, initialized, maxSizeBytes, writeQueue, initPc,
          issuesData, issuesInitialized, issuesWriteQueue, issuesInitPc,
          recorded, loaded, lastCall,
          styleFiles, DEFAULT_CONFIG, inFlight, styleCalls, lastStyle, lastWrapped,
          server, trim>>

metricsVars == <<data, initialized, maxSizeBytes, writeQueue, initPc, recorded>>
issuesVars  == <<issuesData, issuesInitialized, issuesWriteQueue, issuesInitPc>>
storeVars   == <<styleFiles, DEFAULT_CONFIG, inFlight, styleCalls, lastStyle>>
auxVars     == <<server, trim>>

-----------------------------------------------------------------------------
(* Bounds of the model *)

\* record calls per behaviour (counting the ones made before initialize)
MaxRecords == 2
\* report calls per behaviour
MaxReports == 3

\* Inputs of record: tool names, durations (Date.now() differences) and outcome
ToolNames == {"echo", "search"}
Durations == {1, 2}
\* The server name the collectors are constructed with, and another one that
\* a file on disk may carry in its server_name field
ServerName == "srv"
ServerNames == {"srv", "other"}

Max(a, b) == IF a >= b THEN a ELSE b

-----------------------------------------------------------------------------
(* metrics/types.ts *)

\* createEmptyMetricsData: tool_stats_defined is FALSE for a parsed document
\* that has no tool_stats key (data.tool_stats is undefined)
createEmptyMetricsData(serverName, t) ==
    [server_name |-> serverName, created_at |-> t, updated_at |-> t,
     total_invocations |-> 0, tool_stats_defined |-> TRUE,
     tool_stats |-> << >>, invocations |-> << >>]

createEmptyIssuesData(serverName, t) ==
    [server_name |-> serverName, created_at |-> t, updated_at |-> t,
     total_issues |-> 0, issues |-> << >>]

-----------------------------------------------------------------------------
(* JSON.stringify(data).length, the size trimInvocationsForSize measures *)

RECURSIVE Digits(_)
Digits(n) == IF n < 10 THEN 1 ELSE 1 + Digits(n \div 10)

\* Date.prototype.toISOString: "2026-01-01T00:00:00.000Z"
IsoLen == 24

JsonStringLen(s) == Len(s) + 2
JsonBoolLen(b) == IF b THEN Len("true") ELSE Len("false")

\* The argument map of an invocation; a record without the field has {}
ArgumentsOf(inv) == IF "arguments" \in DOMAIN inv THEN inv.arguments ELSE << >>

\* {"key":"value",..}: the argument values are strings
RECURSIVE ArgumentsJsonLen(_, _)
ArgumentsJsonLen(args, keys) ==
    IF keys = {} THEN 0
    ELSE LET k == CHOOSE x \in keys : TRUE IN
         JsonStringLen(k) + Len(":") + JsonStringLen(args[k])
         + (IF Cardinality(keys) > 1 THEN 1 ELSE 0)
         + ArgumentsJsonLen(args, keys \ {k})

\* {"tool":"..","timestamp":"..","duration_ms":N,"reasoning":"..","arguments":{..},"success":true}
\* and, when the invocation has them, ,"result":".." or ,"error":".."
InvocationJsonLen(inv) ==
    Len("{\"tool\":") + JsonStringLen(inv.tool)
    + Len(",\"timestamp\":") + IsoLen + 2
    + Len(",\"duration_ms\":") + Digits(inv.duration_ms)
    + Len(",\"reasoning\":") + JsonStringLen(inv.reasoning)
    + Len(",\"arguments\":{")
    + ArgumentsJsonLen(ArgumentsOf(inv), DOMAIN ArgumentsOf(inv)) + Len("}")
    + Len(",\"success\":") + JsonBoolLen(inv.success)
    + (IF "result" \in DOMAIN inv
       THEN Len(",\"result\":") + JsonStringLen(inv.result) ELSE 0)
    + (IF "error" \in DOMAIN inv
       THEN Len(",\"error\":") + JsonStringLen(inv.error) ELSE 0)
    + Len("}")

\* "name":{"call_count":N,...,"last_used":".."}
ToolStatsJsonLen(name, s) ==
    JsonStringLen(name) + Len(":")
    + Len("{\"call_count\":") + Digits(s.call_count)
    + Len(",\"total_duration_ms\":") + Digits(s.total_duration_ms)
    + Len(",\"avg_duration_ms\":") + Digits(s.avg_duration_ms)
    + Len(",\"success_count\":") + Digits(s.success_count)
    + Len(",\"error_count\":") + Digits(s.error_count)
    + Len(",\"last_used\":") + IsoLen + 2
    + Len("}")

RECURSIVE InvocationsJsonLen(_)
InvocationsJsonLen(invs) ==
    IF invs = << >> THEN 0
    ELSE InvocationJsonLen(Head(invs))
         + (IF Len(invs) > 1 THEN 1 ELSE 0)
         + InvocationsJsonLen(Tail(invs))

RECURSIVE StatsJsonLen(_, _)
StatsJsonLen(stats, names) ==
    IF names = {} THEN 0
    ELSE LET n == CHOOSE x \in names : TRUE IN
         ToolStatsJsonLen(n, stats[n])
         + (IF Cardinality(names) > 1 THEN 1 ELSE 0)
         + StatsJsonLen(stats, names \ {n})

\* JSON.stringify(data): an undefined tool_stats is left out with its key
MetricsJsonLen(d) ==
    Len("{\"server_name\":") + JsonStringLen(d.server_name)
    + Len(",\"created_at\":") + IsoLen + 2
    + Len(",\"updated_at\":") + IsoLen + 2
    + Len(",\"total_invocations\":") + Digits(d.total_invocations)
    + (IF d.tool_stats_defined
       THEN Len(",\"tool_stats\":{") + StatsJsonLen(d.tool_stats, DOMAIN d.tool_stats) + Len("}")
       ELSE 0)
    + Len(",\"invocations\":[") + InvocationsJsonLen(d.invocations) + Len("]")
    + Len("}")

\* JSON.stringify(value, null, 2) of an object or array with `members`
\* members, themselves at column `indent`: what it adds to the compact text.
\* Each member starts on a line of its own (newline and indent), an object
\* member has a space after its colon, and the closing bracket is on a line
\* of its own two columns further left; an empty object or array is {} or []
PrettyExtra(members, indent, isObject) ==
    IF members = 0 THEN 0
    ELSE members * (1 + indent) + (IF isObject THEN members ELSE 0) + 1 + (indent - 2)

\* the keys of an invocation in the file: those of the record and "arguments"
InvocationKeys(inv) == Cardinality(DOMAIN inv \ {"arguments"}) + 1

RECURSIVE InvocationsPrettyExtra(_)
InvocationsPrettyExtra(invs) ==
    IF invs = << >> THEN 0
    ELSE PrettyExtra(InvocationKeys(Head(invs)), 6, TRUE)
         + PrettyExtra(Cardinality(DOMAIN ArgumentsOf(Head(invs))), 8, TRUE)
         + InvocationsPrettyExtra(Tail(invs))

\* JSON.stringify(data, null, 2).length, the size of the file saveMetrics
\* writes (the text is ASCII: one byte per character)
MetricsPrettyLen(d) ==
    MetricsJsonLen(d)
    + PrettyExtra(IF d.tool_stats_defined THEN 6 ELSE 5, 2, TRUE)
    + (IF d.tool_stats_defined
       THEN PrettyExtra(Cardinality(DOMAIN d.tool_stats), 4, TRUE)
            + Cardinality(DOMAIN d.tool_stats) * PrettyExtra(6, 6, TRUE)
       ELSE 0)
    + PrettyExtra(Len(d.invocations), 4, FALSE)
    + InvocationsPrettyExtra(d.invocations)

-----------------------------------------------------------------------------
(* metrics/storage.ts: the files *)

getMetricsFilePath(serverName) == <<"metrics", serverName>>
getIssuesFilePath(serverName) == <<"issues", serverName>>
Paths == {"metrics", "issues"} \X ServerNames

\* What a path holds: no file, text JSON.parse rejects, a JSON value that is
\* not a document (server_name no string, or the record sequence no array),
\* or a document
Absent == [tag |-> "absent"]
Garbage == [tag |-> "garbage"]
BadShape == [tag |-> "badshape"]
Json(d) == [tag |-> "json", doc |-> d]

\* The try block of loadMetrics (lines 58-74) and of loadIssues (183-199):
\* existsSync, readFile (readFails: it throws), JSON.parse (throws on text
\* that is no JSON), the two checks, the return
readAndValidate(file, readFails) ==
    IF file.tag = "absent" THEN [kind |-> "default"]
    ELSE IF readFails \/ file.tag = "garbage" THEN [kind |-> "throw"]
    ELSE IF file.tag = "badshape" THEN [kind |-> "default"]
    ELSE [kind |-> "doc", doc |-> file.doc]

\* an existence test that also asks for a document that passes the checks
existsSyncAndValid(file) == file.tag = "json"

\* existsSync(filePath)
existsSync(file) == file # Absent

\* a load without its catch clause
loadCatchesNothing(kind) == FALSE

\* The catch clause of loadMetrics (line 75) and of loadIssues (line 200)
loadCatches(kind) == kind = "throw"

\* How a load call ends: threw, or returned doc.  (A load that threw would
\* land in the catch of initialize, which installs the same default.)
loadOutcome(outcome, default) ==
    IF outcome.kind = "doc" THEN [threw |-> FALSE, doc |-> outcome.doc]
    ELSE IF outcome.kind = "throw" /\ ~loadCatches(outcome.kind)
    THEN [threw |-> TRUE, doc |-> default]
    ELSE [threw |-> FALSE, doc |-> default]

\* loadMetrics: the default document unless the file parses and passes the
\* two checks of lines 66-68; readFails is readFile throwing
loadMetrics(serverName, readFails, t) ==
    loadOutcome(readAndValidate(disk[getMetricsFilePath(serverName)], readFails),
                createEmptyMetricsData(serverName, t)).doc

loadIssues(serverName, readFails, t) ==
    loadOutcome(readAndValidate(disk[getIssuesFilePath(serverName)], readFails),
                createEmptyIssuesData(serverName, t)).doc

\* a trim that also drops the statistics of the tools it trimmed
RECURSIVE trimWithStats(_, _)
trimWithStats(d, maxSize) ==
    IF MetricsJsonLen(d) > maxSize /\ Len(d.invocations) > 0
    THEN LET n == Len(d.invocations)
             removeCount == Max(1, n \div 4)
             kept == SubSeq(d.invocations, removeCount + 1, n)
             tools == {kept[i].tool : i \in 1..Len(kept)}
         IN  trimWithStats(
                 [d EXCEPT !.invocations = kept,
                           !.tool_stats = IF d.tool_stats_defined
                                          THEN [t \in DOMAIN @ \cap tools |-> @[t]]
                                          ELSE @], maxSize)
    ELSE d

\* the loop test of trimInvocationsForSize that is true inside the limit too
trimContinuesWhileAny(d, maxSize) == Len(d.invocations) > 0

\* currentSize > maxSizeBytes && data.invocations.length > 0
trimContinues(d, maxSize) ==
    MetricsJsonLen(d) > maxSize /\ Len(d.invocations) > 0

\* Math.floor(n * 0.25), without the minimum of one
floorQuarter(n) == n \div 4

\* Math.max(1, Math.floor(data.invocations.length * 0.25))
removeCount(n) == Max(1, n \div 4)

\* invocations.slice(0, -count): the newest are the ones dropped
sliceKeepingOldest(invocations, count) ==
    SubSeq(invocations, 1, Len(invocations) - count)

\* invocations.slice(count)
slice(invocations, count) == SubSeq(invocations, count + 1, Len(invocations))

\* one pass of the loop body: data.invocations = data.invocations.slice(removeCount)
trimOnce(d) ==
    [d EXCEPT !.invocations = slice(@, removeCount(Len(@)))]

\* trimInvocationsForSize: while the document is over the limit and holds
\* invocations, drop the oldest max(1, floor(0.25 * n)) and measure again
RECURSIVE trimInvocationsForSize(_, _)
trimInvocationsForSize(d, maxSize) ==
    IF trimContinues(d, maxSize)
    THEN trimInvocationsForSize(trimOnce(d), maxSize)
    ELSE d

-----------------------------------------------------------------------------
(* metrics/collector.ts: MetricsCollector *)

\* Math.floor in place of Math.round
MathRoundTruncating(a, b) == a \div b

\* Math.round(a / b) for a >= 0, b > 0: halves round up
MathRound(a, b) == (2 * a + b) \div (2 * b)

\* updateToolStats, lines 331-335 and 342-343: what an invocation adds to
\* success_count and to error_count
successIncrement(success) == IF success THEN 1 ELSE 0
\* error_count++ outside the else branch
errorIncrementAlways(success) == 1
errorIncrement(success) == IF success THEN 0 ELSE 1

\* updateToolStats, for a document whose tool_stats is an object
updateToolStats(d, inv) ==
    IF inv.tool \in DOMAIN d.tool_stats
    THEN LET existing == d.tool_stats[inv.tool]
             count == existing.call_count + 1
             total == existing.total_duration_ms + inv.duration_ms
             updated ==
                 [call_count |-> count,
                  total_duration_ms |-> total,
                  avg_duration_ms |-> MathRound(total, count),
                  success_count |-> existing.success_count + successIncrement(inv.success),
                  error_count |-> existing.error_count + errorIncrement(inv.success),
                  last_used |-> inv.timestamp]
         IN  [d EXCEPT !.tool_stats[inv.tool] = updated]
    ELSE LET stats ==
                 [call_count |-> 1,
                  total_duration_ms |-> inv.duration_ms,
                  avg_duration_ms |-> inv.duration_ms,
                  success_count |-> successIncrement(inv.success),
                  error_count |-> errorIncrement(inv.success),
                  last_used |-> inv.timestamp]
         IN  [d EXCEPT !.tool_stats =
                 [n \in DOMAIN d.tool_stats \cup {inv.tool} |->
                     IF n = inv.tool THEN stats ELSE d.tool_stats[n]]]

\* a push that forgets total_invocations++
appendInvocationUncounted(d, inv, t) ==
    [d EXCEPT !.invocations = Append(@, inv), !.updated_at = t]

\* record, lines 303-305: the append, the counter and updated_at
appendInvocation(d, inv, t) ==
    [d EXCEPT !.invocations = Append(@, inv),
              !.total_invocations = @ + 1,
              !.updated_at = t]

\* record without the guard
recordAcceptsAlways(init) == TRUE

\* record, line 297: the guard that lets a call through
recordAccepts(init) == init

\* A flush task of a write queue: queued (chained, not started), dir
\* (persistToDisk ran its synchronous part and awaits ensureMetricsDir),
\* write (the document is serialised and writeFile is awaited), ok / failed
\* (the task's promise is settled).  snap is what the task's trim step left,
\* content the document it serialised.
NoContent == [tag |-> "none"]
QueuedTask == [st |-> "queued", snap |-> << >>, content |-> NoContent]
SettledTask(ok) ==
    [st |-> IF ok THEN "ok" ELSE "failed", snap |-> << >>, content |-> NoContent]
Settled(task) == task.st \in {"ok", "failed"}
Running(task) == task.st \in {"dir", "write"}

\* record(invocation) on a collector with document d and write queue q, at
\* time t: how the call ends and what it leaves.  On a document without
\* tool_stats, updateToolStats throws at line 321, after lines 303-305 and
\* before the flush is chained.
record(init, d, q, inv, t) ==
    IF ~recordAccepts(init)
    THEN [result |-> "skipped", data |-> d, writeQueue |-> q]
    ELSE LET appended == appendInvocation(d, inv, t) IN
         IF d.tool_stats_defined
         THEN [result |-> "returned", data |-> updateToolStats(appended, inv),
               writeQueue |-> Append(q, QueuedTask)]
         ELSE [result |-> "threw", data |-> appended, writeQueue |-> q]

\* persistToDisk() called directly, not chained
canStartFlushUnchained(q, k) == q[k].st = "queued"

\* a chain without the catch: a rejected promise skips the tasks after it
canStartFlushAfterSuccess(q, k) ==
    /\ q[k].st = "queued"
    /\ IF k = 1 THEN TRUE ELSE q[k - 1].st = "ok"

\* writeQueue.then(() => persistToDisk()).catch(..): the k-th task starts when
\* the promise before it in the chain has settled, resolved or rejected
canStartFlush(q, k) ==
    /\ q[k].st = "queued"
    /\ IF k = 1 THEN TRUE ELSE Settled(q[k - 1])

\* a trim that rebuilds the counter from what it kept
flushTrimRecounting(d, maxSize) ==
    LET r == trimInvocationsForSize(d, maxSize) IN
    IF Len(r.invocations) < Len(d.invocations)
    THEN [r EXCEPT !.total_invocations = Len(r.invocations)]
    ELSE r

\* persistToDisk up to its first await: trimInvocationsForSize(this.data, ..)
\* runs on the document in place, then saveMetrics awaits ensureMetricsDir
flushTrim(d, maxSize) == trimInvocationsForSize(d, maxSize)

\* saveMetrics after ensureMetricsDir: JSON.stringify(data, null, 2) reads
\* the document as it is now, and the path comes from its server_name
flushSerialise(d) == d

-----------------------------------------------------------------------------
(* metrics/issues.ts: IssueCollector *)

MAX_ISSUES == 100

IssueSeverities == {"low", "critical"}
\* Math.random().toString(36).substring(2, 8), as a number
RandomSuffixes == {0, 1}

\* report, lines 86-97: the issue created from the parameters
generateIssueId(t, random) == <<t, random>>

RequiredFields == {"title", "description", "severity", "category"}
OptionalFields ==
    {"steps_to_reproduce", "expected_behavior", "actual_behavior", "environment"}

\* an issue that keeps the four required fields only
newIssueRequiredOnly(params, t, random) ==
    [k \in RequiredFields \cup {"id", "created_at"} |->
        IF k = "id" THEN generateIssueId(t, random)
        ELSE IF k = "created_at" THEN t
        ELSE params[k]]

\* An optional field that was not passed is undefined in the issue and
\* absent from its JSON: here it is no key of the record
newIssue(params, t, random) ==
    [k \in RequiredFields \cup (OptionalFields \cap DOMAIN params) \cup {"id", "created_at"} |->
        IF k = "id" THEN generateIssueId(t, random)
        ELSE IF k = "created_at" THEN t
        ELSE params[k]]

\* a cap that cuts the head, not the tail
prependIssueDroppingNewest(d, issue, t) ==
    LET grown == <<issue>> \o d.issues
        kept == IF Len(grown) > MAX_ISSUES THEN SubSeq(grown, 2, MAX_ISSUES + 1) ELSE grown
    IN  [d EXCEPT !.issues = kept, !.total_issues = @ + 1, !.updated_at = t]

\* report, lines 100-107: unshift, counter, updated_at, cap
prependIssue(d, issue, t) ==
    LET grown == <<issue>> \o d.issues
        kept == IF Len(grown) > MAX_ISSUES THEN SubSeq(grown, 1, MAX_ISSUES) ELSE grown
    IN  [d EXCEPT !.issues = kept, !.total_issues = @ + 1, !.updated_at = t]

\* report without the guard
reportAcceptsAlways(init) == TRUE

\* report, line 81: the guard that lets a call through
reportAccepts(init) == init

\* new Error("IssueCollector not initialized")
NotInitializedMessage == "IssueCollector not initialized"

\* report(params) on a collector with flag init, document d and queue q:
\* how the call ends, and the document and the queue it leaves
report(init, d, q, params, t, random) ==
    IF ~reportAccepts(init)
    THEN [result |-> "threw", error |-> NotInitializedMessage, data |-> d, writeQueue |-> q]
    ELSE LET issue == newIssue(params, t, random) IN
         [result |-> "returned", issue |-> issue, data |-> prependIssue(d, issue, t),
          writeQueue |-> Append(q, QueuedTask)]

-----------------------------------------------------------------------------
(* styles/config.ts: the style store *)

\* style store calls and file edits per behaviour, and how many mutations may
\* be between their read and the end of their write at once
MaxStyleCalls == 2
MaxInFlight == 2

Scopes == {"global", "project"}
StyleNames == {"minimal", "bold"}
TagLists == {<<"flat">>, <<"flat", "outline">>}

\* A path string is modelled by the sequence of its parts around "/", what
\* split("/") returns and join("/") reads: "/a/b" is <<"", "a", "b">>, "a/"
\* is <<"a", "">>, "" is <<"">>
PathA == <<"", "a">>
PathAB == <<"", "a", "b">>
PathABC == <<"", "a", "b", "c">>
PathAX == <<"", "a", "x">>
WithSlash(parts) == parts \o <<"">>

\* folderPath.replace(/\/$/, ""): one trailing slash goes
stripOneTrailingSlash(parts) ==
    IF Len(parts) > 1 /\ parts[Len(parts)] = ""
    THEN SubSeq(parts, 1, Len(parts) - 1)
    ELSE parts

\* folderPath.replace(/\/+$/, ""): the trailing empty parts go, one part stays
RECURSIVE stripTrailingSlashes(_)
stripTrailingSlashes(parts) ==
    IF Len(parts) > 1 /\ parts[Len(parts)] = ""
    THEN stripTrailingSlashes(SubSeq(parts, 1, Len(parts) - 1))
    ELSE parts

\* config.styles and config.folders are plain objects ({} or what JSON.parse
\* built), so `key in obj` is true also for the property names they inherit
\* from Object.prototype; "constructor" stands for those
ObjectPrototypeKeys == {"constructor"}

\* name in config.styles
hasStyle(styles, name) == name \in DOMAIN styles \/ name \in ObjectPrototypeKeys

\* normalizedPath in config.folders: a path is a key as the string of its
\* parts joined by "/"
hasFolder(folders, path) ==
    path \in DOMAIN folders \/ (Len(path) = 1 /\ path[1] \in ObjectPrototypeKeys)

\* obj[key] = value and delete obj[key] on an object used as a map
Put(obj, key, value) ==
    [k \in DOMAIN obj \cup {key} |-> IF k = key THEN value ELSE obj[k]]
Drop(obj, key) == [k \in DOMAIN obj \ {key} |-> obj[k]]

RemoveAt(seq, k) ==
    [j \in 1..(Len(seq) - 1) |-> IF j < k THEN seq[j] ELSE seq[j + 1]]

EmptyConfig == [styles |-> << >>, folders |-> << >>]

\* a readConfigFile that never looks at the file
readConfigFileDefault(file) == [shared |-> TRUE, config |-> DEFAULT_CONFIG]

\* readConfigFile: a file that is read and parsed gives a config of its own;
\* in the catch, { ...DEFAULT_CONFIG } is a new object whose styles and
\* folders are the very objects DEFAULT_CONFIG holds (shared)
readConfigFile(file) ==
    IF file.tag = "json"
    THEN [shared |-> FALSE, config |-> file.doc]
    ELSE [shared |-> TRUE, config |-> DEFAULT_CONFIG]

\* { ...project, ...global }
spreadUnder(global, project) ==
    [k \in DOMAIN global \cup DOMAIN project |->
        IF k \in DOMAIN global THEN global[k] ELSE project[k]]

\* { ...global, ...project }
spreadOver(global, project) ==
    [k \in DOMAIN global \cup DOMAIN project |->
        IF k \in DOMAIN project THEN project[k] ELSE global[k]]

\* getMergedConfig, lines 134-147: every global key marked "global", then
\* every project key marked "project"
markSources(global, project) ==
    [k \in DOMAIN global \cup DOMAIN project |->
        IF k \in DOMAIN project THEN "project" ELSE "global"]

\* getMergedConfig, from the two configs it read
getMergedConfig(global, project) ==
    [styles |-> spreadOver(global.styles, project.styles),
     folders |-> spreadOver(global.folders, project.folders),
     sources |-> [styles |-> markSources(global.styles, project.styles),
                  folders |-> markSources(global.folders, project.folders)]]

\* getMergedConfig as a call made now
mergedNow ==
    getMergedConfig(readConfigFile(styleFiles["global"]).config,
                    readConfigFile(styleFiles["project"]).config)

NotFound == [found |-> FALSE]

\* an association counts only if `if (tags)` is never asked
resolvesAlways(config, path) == TRUE

\* getStyleForFolder, lines 277-279 and 289-291: `if (tags)`, for the
\* association of path: its style has tags in the merged styles
resolves(config, path) == config.folders[path] \in DOMAIN config.styles

\* what getStyleForFolder does on reaching a path that is a key of
\* config.folders: "return" its style, or "next" (fall out of the if)
onAssociation(config, path) ==
    IF resolves(config, path) THEN "return" ELSE "next"

Match(config, path) ==
    [found |-> TRUE, style |-> config.folders[path],
     tags |-> IF config.folders[path] \in DOMAIN config.styles
              THEN config.styles[config.folders[path]] ELSE << >>,
     matchedPath |-> path]

\* the loop of lines 286-295 run from the root downwards
checkParentsShallowestFirst(config, parts, i) ==
    LET hits == {j \in 1..i : /\ SubSeq(parts, 1, j) \in DOMAIN config.folders
                              /\ onAssociation(config, SubSeq(parts, 1, j)) = "return"}
    IN  IF hits = {} THEN NotFound
        ELSE Match(config, SubSeq(parts, 1, CHOOSE j \in hits : \A h \in hits : j <= h))

\* getStyleForFolder, lines 286-295: for (i = parts.length - 1; i > 0; i--)
RECURSIVE checkParents(_, _, _)
checkParents(config, parts, i) ==
    IF i <= 0 THEN NotFound
    ELSE LET parentPath == SubSeq(parts, 1, i) IN
         IF parentPath \in DOMAIN config.folders
            /\ onAssociation(config, parentPath) = "return"
         THEN Match(config, parentPath)
         ELSE checkParents(config, parts, i - 1)

\* getStyleForFolder on the merged config it read
getStyleForFolder(config, folderPath) ==
    LET normalizedPath == stripTrailingSlashes(folderPath) IN
    IF normalizedPath \in DOMAIN config.folders
       /\ onAssociation(config, normalizedPath) = "return"
    THEN Match(config, normalizedPath)
    ELSE checkParents(config, normalizedPath, Len(normalizedPath) - 1)

\* The calls that change a scope
SaveStyleCalls ==
    {[op |-> "saveStyle", scope |-> s, name |-> n, tags |-> t] :
        s \in Scopes, n \in StyleNames, t \in TagLists}
DeleteStyleCalls ==
    {[op |-> "deleteStyle", scope |-> s, name |-> n] :
        s \in Scopes, n \in StyleNames \cup ObjectPrototypeKeys}
SetFolderStyleCalls ==
    {[op |-> "setFolderStyle", scope |-> s, folderPath |-> p, styleName |-> n] :
        s \in Scopes, p \in {PathA, WithSlash(PathAB)}, n \in StyleNames}
RemoveFolderStyleCalls ==
    {[op |-> "removeFolderStyle", scope |-> s, folderPath |-> p] :
        s \in Scopes, p \in {PathA, WithSlash(PathAB)}}
StyleCalls ==
    SaveStyleCalls \cup DeleteStyleCalls \cup SetFolderStyleCalls \cup RemoveFolderStyleCalls

\* the paths getStyleForFolder is asked about
QueryPaths == {PathAB, PathABC, WithSlash(PathAX)}

\* deleteStyle that leaves the folder associations alone
deleteStyleKeepingFolders(config, name) ==
    [config EXCEPT !.styles = Drop(@, name)]

\* deleteStyle, lines 194-201
deleteStyle(config, name) ==
    [styles |-> Drop(config.styles, name),
     folders |-> [f \in {g \in DOMAIN config.folders : config.folders[g] # name} |->
                     config.folders[f]]]

\* lines 190 and 252: the early `return false`
proceeds(call, config) ==
    CASE call.op = "deleteStyle" -> hasStyle(config.styles, call.name)
      [] call.op = "removeFolderStyle" ->
            hasFolder(config.folders, stripTrailingSlashes(call.folderPath))
      [] OTHER -> TRUE

\* what a call does to the config it read (lines 168, 194-201, 228, 256)
mutate(call, config) ==
    CASE call.op = "saveStyle" ->
            [config EXCEPT !.styles = Put(@, call.name, call.tags)]
      [] call.op = "deleteStyle" -> deleteStyle(config, call.name)
      [] call.op = "setFolderStyle" ->
            [config EXCEPT !.folders =
                Put(@, stripTrailingSlashes(call.folderPath), call.styleName)]
      [] call.op = "removeFolderStyle" ->
            [config EXCEPT !.folders = Drop(@, stripTrailingSlashes(call.folderPath))]

\* what the call returns once its write is done
returnValue(call) ==
    IF call.op \in {"deleteStyle", "removeFolderStyle"} THEN "true" ELSE "void"

\* Config files left by earlier runs or written by hand.  The project file
\* associates /a/b with a style only the global file defines.
GlobalPrior ==
    [styles |-> Put(Put(<< >>, "minimal", <<"flat", "outline">>), "bold", <<"flat">>),
     folders |-> Put(<< >>, PathA, "minimal")]
ProjectPrior ==
    [styles |-> Put(<< >>, "minimal", <<"flat">>),
     folders |-> Put(<< >>, PathAB, "bold")]
PriorConfig(scope) == IF scope = "global" THEN GlobalPrior ELSE ProjectPrior
StyleFileChoices(scope) == {Absent, Json(PriorConfig(scope))}

NoStyleCall == [call |-> [op |-> "none"], result |-> "none"]

\* the store of a process that has not used it
StoreNew ==
    /\ DEFAULT_CONFIG = EmptyConfig
    /\ inFlight = << >>
    /\ styleCalls = 0
    /\ lastStyle = NoStyleCall

-----------------------------------------------------------------------------
(* The files a collector may find when it starts *)

PriorInvocation(tool, dur, ok) ==
    [tool |-> tool, timestamp |-> 0, duration_ms |-> dur, reasoning |-> "r",
     success |-> ok]

\* Left by an earlier run: ten calls of echo, the last eight still in the
\* sequence
PriorMetrics ==
    [server_name |-> ServerName, created_at |-> 0, updated_at |-> 0,
     total_invocations |-> 10, tool_stats_defined |-> TRUE,
     tool_stats |-> [n \in {"echo"} |->
         [call_count |-> 10, total_duration_ms |-> 15, avg_duration_ms |-> 2,
          success_count |-> 8, error_count |-> 2, last_used |-> 0]],
     invocations |-> [k \in 1..8 |->
                        PriorInvocation("echo", 1 + (k % 2), k % 4 # 0)]]

\* Passes loadMetrics' two checks and has no tool_stats key
NoStatsMetrics ==
    [createEmptyMetricsData(ServerName, 0) EXCEPT !.tool_stats_defined = FALSE]

\* Carries another server's name in server_name
ForeignMetrics == createEmptyMetricsData("other", 0)

InitialMetricsFiles ==
    {Absent, Garbage, BadShape, Json(PriorMetrics), Json(NoStatsMetrics),
     Json(ForeignMetrics)}

\* CONFIG.metricsMaxSizeBytes, and a limit a few invocations exceed
DefaultMaxSizeBytes == 1048576
SmallMaxSizeBytes == 500
MaxSizeChoices == {DefaultMaxSizeBytes, SmallMaxSizeBytes}

OldIssue(k) ==
    [id |-> generateIssueId(0, k), title |-> "old", description |-> "d", severity |-> "low",
     category |-> "bug", created_at |-> 0]

\* n issues of an earlier run, newest first
PriorIssues(n) ==
    [server_name |-> ServerName, created_at |-> 0, updated_at |-> 0,
     total_issues |-> n, issues |-> [k \in 1..n |-> OldIssue(k)]]

InitialIssueCounts == {0, MAX_ISSUES - 2, MAX_ISSUES, MAX_ISSUES + 2}
InitialIssueFiles ==
    {Absent, Garbage, BadShape} \cup {Json(PriorIssues(n)) : n \in InitialIssueCounts}

NoCall == [op |-> "none", result |-> "none", n |-> 0]

\* no createServer call and no separate trimInvocationsForSize call
NoServer == [pc |-> "none"]
NoTrim == [pc |-> "none"]

NoWrapped == [handler |-> "none", args |-> << >>, toolArgs |-> << >>,
              records |-> << >>, outcome |-> "none", initialized |-> FALSE]

\* Both collectors as their constructors leave them
CollectorsNew ==
    /\ data = createEmptyMetricsData(ServerName, now)
    /\ initialized = FALSE
    /\ writeQueue = << >>
    /\ initPc = "new"
    /\ issuesData = createEmptyIssuesData(ServerName, now)
    /\ issuesInitialized = FALSE
    /\ issuesWriteQueue = << >>
    /\ issuesInitPc = "new"
    /\ recorded = << >>
    /\ loaded = data
    /\ lastCall = NoCall

Init ==
    /\ focus \in {"metrics", "issues"}
    /\ now = 1
    /\ \E mfile \in InitialMetricsFiles, ifile \in InitialIssueFiles :
          disk = [p \in Paths |->
                    IF focus = "metrics" /\ p = getMetricsFilePath(ServerName) THEN mfile
                    ELSE IF focus = "issues" /\ p = getIssuesFilePath(ServerName) THEN ifile
                    ELSE Absent]
    /\ maxSizeBytes \in (IF focus = "metrics" THEN MaxSizeChoices ELSE {DefaultMaxSizeBytes})
    /\ CollectorsNew
    /\ styleFiles = [s \in Scopes |-> Absent]
    /\ StoreNew
    /\ lastWrapped = NoWrapped
    /\ server = NoServer
    /\ trim = NoTrim

-----------------------------------------------------------------------------
(* MetricsCollector: the operations *)

\* an initialize whose try has no catch: the error leaves initialize
initializeWithoutCatch(default) ==
    [data |-> default, initialized |-> FALSE, pc |-> "threw"]

\* The catch of initialize (collector.ts 282-287, issues.ts 48-53): continue
\* with empty data
initializeCatch(default) ==
    [data |-> default, initialized |-> TRUE, pc |-> "done"]

\* initialize, first await: initializeMetricsFile creates the file when the
\* path holds none; a failing mkdir or writeFile throws into initialize's
\* catch, which installs the default document
InitializeFile(fails) ==
    /\ focus = "metrics" /\ initPc = "new"
    /\ LET path == getMetricsFilePath(ServerName) IN
       IF ~existsSync(disk[path])
       THEN IF fails
            THEN LET caught == initializeCatch(createEmptyMetricsData(ServerName, now)) IN
                 /\ data' = caught.data
                 /\ initialized' = caught.initialized
                 /\ initPc' = caught.pc
                 /\ loaded' = data'
                 /\ disk' = disk
            ELSE /\ disk' = [disk EXCEPT ![path] = Json(createEmptyMetricsData(ServerName, now))]
                 /\ initPc' = "load"
                 /\ UNCHANGED <<data, initialized, loaded>>
       ELSE /\ ~fails
            /\ initPc' = "load"
            /\ UNCHANGED <<disk, data, initialized, loaded>>
    /\ UNCHANGED <<focus, now, maxSizeBytes, writeQueue, recorded, lastCall, issuesVars, storeVars, lastWrapped, auxVars>>

\* initialize, second await: loadMetrics, then initialized = true
InitializeLoad(readFails) ==
    /\ focus = "metrics" /\ initPc = "load"
    /\ data' = loadMetrics(ServerName, readFails, now)
    /\ initialized' = TRUE
    /\ initPc' = "done"
    /\ loaded' = data'
    /\ UNCHANGED <<focus, now, disk, maxSizeBytes, writeQueue, recorded, lastCall, issuesVars, storeVars, lastWrapped, auxVars>>

\* record(invocation).  The caller stamps the invocation with new Date() just
\* before the call.
Record(tool, duration, success) ==
    /\ focus = "metrics" /\ lastCall.n < MaxRecords
    /\ LET t == now + 1
           inv == [tool |-> tool, timestamp |-> t, duration_ms |-> duration,
                   reasoning |-> "r", success |-> success]
           r == record(initialized, data, writeQueue, inv, t)
       IN  /\ lastCall' = [op |-> "record", result |-> r.result, n |-> lastCall.n + 1]
           /\ data' = r.data
           /\ writeQueue' = r.writeQueue
           /\ now' = IF r.result = "skipped" THEN now ELSE t
           /\ recorded' = IF r.result = "skipped" THEN recorded ELSE Append(recorded, inv)
    /\ UNCHANGED <<focus, disk, initialized, maxSizeBytes, initPc, loaded, issuesVars, storeVars, lastWrapped, auxVars>>

\* The k-th flush starts: persistToDisk trims this.data and saveMetrics
\* suspends on ensureMetricsDir
FlushStart(k) ==
    /\ focus = "metrics" /\ k \in DOMAIN writeQueue
    /\ canStartFlush(writeQueue, k)
    /\ data' = flushTrim(data, maxSizeBytes)
    /\ writeQueue' = [writeQueue EXCEPT ![k] =
                        [st |-> "dir", snap |-> data'.invocations, content |-> NoContent]]
    /\ UNCHANGED <<focus, now, disk, initialized, maxSizeBytes, initPc, recorded,
                   loaded, lastCall, issuesVars, storeVars, lastWrapped, auxVars>>

\* saveMetrics resumes: it serialises this.data and suspends on writeFile
FlushSerialise(k) ==
    /\ focus = "metrics" /\ k \in DOMAIN writeQueue
    /\ writeQueue[k].st = "dir"
    /\ writeQueue' = [writeQueue EXCEPT ![k].st = "write",
                                        ![k].content = flushSerialise(data)]
    /\ UNCHANGED <<focus, now, disk, data, initialized, maxSizeBytes, initPc, recorded,
                   loaded, lastCall, issuesVars, storeVars, lastWrapped, auxVars>>

\* writeFile settles: the file holds the serialised document, or the write
\* failed, persistToDisk's catch logged it, and the file is as it was
FlushWrite(k, ok) ==
    /\ focus = "metrics" /\ k \in DOMAIN writeQueue
    /\ writeQueue[k].st = "write"
    /\ disk' = IF ok
               THEN [disk EXCEPT ![getMetricsFilePath(writeQueue[k].content.server_name)] =
                                     Json(writeQueue[k].content)]
               ELSE disk
    /\ writeQueue' = [writeQueue EXCEPT ![k] = SettledTask(ok)]
    /\ UNCHANGED <<focus, now, data, initialized, maxSizeBytes, initPc, recorded,
                   loaded, lastCall, issuesVars, storeVars, lastWrapped, auxVars>>

-----------------------------------------------------------------------------
(* IssueCollector: the operations *)

IssueInitializeFile(fails) ==
    /\ focus = "issues" /\ issuesInitPc = "new"
    /\ LET path == getIssuesFilePath(ServerName) IN
       IF ~existsSync(disk[path])
       THEN IF fails
            THEN LET caught == initializeCatch(createEmptyIssuesData(ServerName, now)) IN
                 /\ issuesData' = caught.data
                 /\ issuesInitialized' = caught.initialized
                 /\ issuesInitPc' = caught.pc
                 /\ disk' = disk
            ELSE /\ disk' = [disk EXCEPT ![path] = Json(createEmptyIssuesData(ServerName, now))]
                 /\ issuesInitPc' = "load"
                 /\ UNCHANGED <<issuesData, issuesInitialized>>
       ELSE /\ ~fails
            /\ issuesInitPc' = "load"
            /\ UNCHANGED <<disk, issuesData, issuesInitialized>>
    /\ UNCHANGED <<focus, now, issuesWriteQueue, lastCall, loaded, metricsVars, storeVars, lastWrapped, auxVars>>

IssueInitializeLoad(readFails) ==
    /\ focus = "issues" /\ issuesInitPc = "load"
    /\ issuesData' = loadIssues(ServerName, readFails, now)
    /\ issuesInitialized' = TRUE
    /\ issuesInitPc' = "done"
    /\ UNCHANGED <<focus, now, disk, issuesWriteQueue, lastCall, loaded, metricsVars, storeVars, lastWrapped, auxVars>>

\* report(params): throws before initialize has finished
ReportCall(params, random) ==
    /\ focus = "issues" /\ lastCall.n < MaxReports
    /\ LET t == now + 1
           r == report(issuesInitialized, issuesData, issuesWriteQueue, params, t, random)
       IN  /\ now' = IF r.result = "threw" THEN now ELSE t
           /\ issuesData' = r.data
           /\ issuesWriteQueue' = r.writeQueue
           /\ lastCall' = IF r.result = "threw"
                          THEN [op |-> "report", result |-> "threw", n |-> lastCall.n + 1]
                          ELSE [op |-> "report", result |-> "returned",
                                n |-> lastCall.n + 1, issue |-> r.issue,
                                params |-> params]
    /\ UNCHANGED <<focus, disk, issuesInitialized, issuesInitPc, loaded, metricsVars, storeVars, lastWrapped, auxVars>>

Report(severity, random) ==
    ReportCall([title |-> "crash", description |-> "d",
                severity |-> severity, category |-> "bug"], random)

\* persistToDisk has no trim step: saveIssues suspends on ensureMetricsDir
IssueFlushStart(k) ==
    /\ focus = "issues" /\ k \in DOMAIN issuesWriteQueue
    /\ canStartFlush(issuesWriteQueue, k)
    /\ issuesWriteQueue' = [issuesWriteQueue EXCEPT ![k].st = "dir"]
    /\ UNCHANGED <<focus, now, disk, issuesData, issuesInitialized, issuesInitPc,
                   lastCall, loaded, metricsVars, storeVars, lastWrapped, auxVars>>

IssueFlushSerialise(k) ==
    /\ focus = "issues" /\ k \in DOMAIN issuesWriteQueue
    /\ issuesWriteQueue[k].st = "dir"
    /\ issuesWriteQueue' = [issuesWriteQueue EXCEPT ![k].st = "write",
                                                    ![k].content = issuesData]
    /\ UNCHANGED <<focus, now, disk, issuesData, issuesInitialized, issuesInitPc,
                   lastCall, loaded, metricsVars, storeVars, lastWrapped, auxVars>>

IssueFlushWrite(k, ok) ==
    /\ focus = "issues" /\ k \in DOMAIN issuesWriteQueue
    /\ issuesWriteQueue[k].st = "write"
    /\ disk' = IF ok
               THEN [disk EXCEPT ![getIssuesFilePath(issuesWriteQueue[k].content.server_name)] =
                                     Json(issuesWriteQueue[k].content)]
               ELSE disk
    /\ issuesWriteQueue' = [issuesWriteQueue EXCEPT ![k] = SettledTask(ok)]
    /\ UNCHANGED <<focus, now, issuesData, issuesInitialized, issuesInitPc,
                   lastCall, loaded, metricsVars, storeVars, lastWrapped, auxVars>>

-----------------------------------------------------------------------------

Next ==
    \/ \E fails \in BOOLEAN : InitializeFile(fails)
    \/ \E readFails \in BOOLEAN : InitializeLoad(readFails)
    \/ \E tool \in ToolNames, duration \in Durations, success \in BOOLEAN :
          Record(tool, duration, success)
    \/ \E k \in 1..MaxRecords : FlushStart(k)
    \/ \E k \in 1..MaxRecords : FlushSerialise(k)
    \/ \E k \in 1..MaxRecords, ok \in BOOLEAN : FlushWrite(k, ok)
    \/ \E fails \in BOOLEAN : IssueInitializeFile(fails)
    \/ \E readFails \in BOOLEAN : IssueInitializeLoad(readFails)
    \/ \E severity \in IssueSeverities, random \in RandomSuffixes : Report(severity, random)
    \/ \E k \in 1..MaxReports : IssueFlushStart(k)
    \/ \E k \in 1..MaxReports : IssueFlushSerialise(k)
    \/ \E k \in 1..MaxReports, ok \in BOOLEAN : IssueFlushWrite(k, ok)

Spec == Init /\ [][Next]_vars

-----------------------------------------------------------------------------
(* tools/wrapper.ts: createMetricsWrapper *)

\* what the original handler returns, the message of the error it throws,
\* and the message of the TypeError record throws
HandlerResult == "res"
HandlerError == "boom"
RecordError == "TypeError"

\* What a client passes to a wrapped tool: the tool's own parameters and the
\* reasoning the wrapped schema adds
CallerArguments(tool) ==
    IF tool = "echo"
    THEN [k \in {"message", "reasoning"} |-> IF k = "message" THEN "hi" ELSE "r"]
    ELSE [k \in {"query", "limit", "reasoning"} |->
             IF k = "query" THEN "cat" ELSE IF k = "limit" THEN "5" ELSE "r"]

\* a destructuring that takes nothing out
keepReasoning(args) == args

\* line 42: const { reasoning, ...toolArgs } = args
omitReasoning(args) == [k \in DOMAIN args \ {"reasoning"} |-> args[k]]

\* lines 50-58 and 66-74: the invocation the wrapper builds
wrapperInvocation(tool, duration, args, success, payload, t) ==
    IF success
    THEN [tool |-> tool, timestamp |-> t, duration_ms |-> duration,
          reasoning |-> args.reasoning, arguments |-> omitReasoning(args),
          success |-> TRUE, result |-> payload]
    ELSE [tool |-> tool, timestamp |-> t, duration_ms |-> duration,
          reasoning |-> args.reasoning, arguments |-> omitReasoning(args),
          success |-> FALSE, error |-> payload]

\* A process whose tools are wrapped: every record comes from a wrapped call
InitWrapper == Init /\ focus = "metrics"

\* wrappedHandler from the moment the original handler settles (returned:
\* it resolved, else it threw).  The record of line 59 is inside the try, so
\* an error it throws lands in the catch, which records again (line 75); an
\* error thrown there leaves wrappedHandler in place of the handler's own.
WrappedCall(tool, duration, returned) ==
    /\ focus = "metrics" /\ lastCall.n < MaxRecords
    /\ LET t1 == now + 1
           args == CallerArguments(tool)
           inTry == wrapperInvocation(tool, duration, args, TRUE, HandlerResult, t1)
           r1 == record(initialized, data, writeQueue, inTry, t1)
           caught == returned /\ r1.result = "threw"
           \* the state the catch block starts from
           d2 == IF returned THEN r1.data ELSE data
           q2 == IF returned THEN r1.writeQueue ELSE writeQueue
           t2 == IF returned THEN t1 + 1 ELSE t1
           inCatch == wrapperInvocation(tool, duration, args, FALSE,
                          IF returned THEN RecordError ELSE HandlerError, t2)
           r2 == record(initialized, d2, q2, inCatch, t2)
           last == IF returned /\ ~caught THEN r1 ELSE r2
           calls == IF returned /\ ~caught THEN <<inTry>>
                    ELSE IF caught THEN <<inTry, inCatch>> ELSE <<inCatch>>
       IN  /\ data' = last.data
           /\ writeQueue' = last.writeQueue
           /\ now' = IF ~initialized THEN now ELSE IF caught THEN t2 ELSE t1
           /\ recorded' = IF ~initialized THEN recorded ELSE recorded \o calls
           /\ lastCall' = [op |-> "record", result |-> last.result, n |-> lastCall.n + 1]
           /\ lastWrapped' =
                 [handler |-> IF returned THEN "returned" ELSE "threw",
                  args |-> args,
                  toolArgs |-> omitReasoning(args),
                  records |-> calls,
                  outcome |-> IF last.result = "threw" THEN "threw record error"
                              ELSE IF returned THEN "returned result"
                              ELSE "rethrew handler error",
                  initialized |-> initialized]
    /\ UNCHANGED <<focus, disk, initialized, maxSizeBytes, initPc, loaded, issuesVars,
                   storeVars, auxVars>>

NextWrapper ==
    \/ \E fails \in BOOLEAN : InitializeFile(fails)
    \/ \E readFails \in BOOLEAN : InitializeLoad(readFails)
    \/ \E tool \in ToolNames, duration \in Durations, returned \in BOOLEAN :
          WrappedCall(tool, duration, returned)
    \/ \E k \in 1..MaxRecords : FlushStart(k)
    \/ \E k \in 1..MaxRecords : FlushSerialise(k)
    \/ \E k \in 1..MaxRecords, ok \in BOOLEAN : FlushWrite(k, ok)

SpecWrapper == InitWrapper /\ [][NextWrapper]_vars

-----------------------------------------------------------------------------
(* tools/report-issue.ts: the report_issue tool *)

MaxToolReports == 2

\* category === "feature_request" ? "Feature request"
\*   : category.charAt(0).toUpperCase() + category.slice(1)
categoryLabel(category) ==
    IF category = "feature_request" THEN "Feature request"
    ELSE IF category = "bug" THEN "Bug"
    ELSE category

\* a handler whose try has no catch: the error of report leaves the handler
reportIssueWithoutCatch(errorMessage) ==
    [outcome |-> "threw", isError |-> FALSE, text |-> <<errorMessage>>]

\* lines 145-160: the catch of the handler
reportIssueCatch(errorMessage) ==
    [outcome |-> "returned", isError |-> TRUE,
     text |-> <<"Failed to save issue report: ", errorMessage>>]

\* lines 121-144: the result returned after report returned
reportIssueSuccess(issue, params) ==
    [outcome |-> "returned", isError |-> FALSE,
     text |-> <<"Issue reported successfully!", issue.id, categoryLabel(params.category),
                params.severity, params.title, getIssuesFilePath(ServerName), ServerName>>]

\* What callers pass: a plain bug, a bug with one optional field, and a
\* feature request with every optional field
ReportInputs ==
    LET bug == [title |-> "crash", description |-> "d", severity |-> "low",
                category |-> "bug"]
        request == [title |-> "idea", description |-> "e", severity |-> "critical",
                    category |-> "feature_request"]
    IN  { bug,
          [k \in DOMAIN bug \cup {"environment"} |->
              IF k \in DOMAIN bug THEN bug[k] ELSE "linux"],
          [k \in DOMAIN request \cup OptionalFields |->
              IF k \in DOMAIN request THEN request[k] ELSE k] }

\* The handler registered by registerReportIssueTool is called: one call of
\* issueCollector.report inside a try, and the result built from how it ended
ReportIssueHandler(params, random) ==
    /\ lastCall.n < MaxToolReports
    /\ LET t == now + 1
           r == report(issuesInitialized, issuesData, issuesWriteQueue, params, t, random)
           out == IF r.result = "threw" THEN reportIssueCatch(r.error)
                  ELSE reportIssueSuccess(r.issue, params)
       IN  /\ now' = IF r.result = "threw" THEN now ELSE t
           /\ issuesData' = r.data
           /\ issuesWriteQueue' = r.writeQueue
           /\ lastCall' = [op |-> "report_issue", result |-> out.outcome,
                           n |-> lastCall.n + 1, isError |-> out.isError,
                           text |-> out.text, params |-> params]
    /\ UNCHANGED <<focus, disk, issuesInitialized, issuesInitPc, loaded, metricsVars,
                   storeVars, lastWrapped, auxVars>>

\* A process that constructs an IssueCollector, registers report_issue on it
\* and calls initialize; report is also called directly
InitIssueTool == Init /\ focus = "issues"

ReportIssueCall(params, random) ==
    focus = "issues" /\ ReportIssueHandler(params, random)

DirectReport(params, random) ==
    lastCall.n < MaxToolReports /\ ReportCall(params, random)

NextIssueTool ==
    \/ \E fails \in BOOLEAN : IssueInitializeFile(fails)
    \/ \E readFails \in BOOLEAN : IssueInitializeLoad(readFails)
    \/ \E params \in ReportInputs, random \in RandomSuffixes : ReportIssueCall(params, random)
    \/ \E params \in ReportInputs, random \in RandomSuffixes : DirectReport(params, random)
    \/ \E k \in 1..MaxToolReports : IssueFlushStart(k)
    \/ \E k \in 1..MaxToolReports : IssueFlushSerialise(k)
    \/ \E k \in 1..MaxToolReports, ok \in BOOLEAN : IssueFlushWrite(k, ok)

SpecIssueTool == InitIssueTool /\ [][NextIssueTool]_vars

-----------------------------------------------------------------------------
(* server.ts: createServer *)

\* a createServer that calls initialize() without await
notAwaited(pc) == TRUE

\* await collector.initialize(): createServer goes on when initialize has ended
awaited(pc) == pc = "done"

\* the wrapper used whether or not metrics are enabled
wrapToolAlwaysMetrics(enabled) == "metrics"

\* lines 44-60: createMetricsWrapper(metricsCollector) when isMetricsEnabled(),
\* createIdentityWrapper() otherwise
wrapToolFor(enabled) == IF enabled THEN "metrics" ELSE "identity"

\* registerTools(server, wrapTool): every tool module registers what wrapTool
\* returns; the metrics wrapper adds `reasoning` to the schema and wraps the
\* handler, the identity wrapper returns schema and handler as they are
registerTools(wrapTool) ==
    {[name |-> n, reasoning |-> wrapTool = "metrics", wrapped |-> wrapTool = "metrics"] :
        n \in ToolNames}

\* registerReportIssueTool(server, issueCollector, serverName)
ReportIssueTool == [name |-> "report_issue", reasoning |-> FALSE, wrapped |-> FALSE]

\* A process at the call of createServer.  isMetricsEnabled() is fixed by
\* CONFIG and the environment; the ledger files are what earlier runs left.
InitServer ==
    /\ focus = "server"
    /\ now = 1
    /\ \E mfile \in InitialMetricsFiles, ifile \in {Absent, Json(PriorIssues(0))} :
          disk = [p \in Paths |->
                    IF p = getMetricsFilePath(ServerName) THEN mfile
                    ELSE IF p = getIssuesFilePath(ServerName) THEN ifile
                    ELSE Absent]
    /\ maxSizeBytes = DefaultMaxSizeBytes
    /\ CollectorsNew
    /\ styleFiles = [s \in Scopes |-> Absent]
    /\ StoreNew
    /\ lastWrapped = NoWrapped
    /\ \E enabled \in BOOLEAN :
          server = [pc |-> "start", enabled |-> enabled, metricsCollector |-> FALSE,
                    issueCollector |-> FALSE, tools |-> {}]
    /\ trim = NoTrim

\* createServer up to its first await: with metrics enabled the metrics
\* collector is constructed and initialize() is awaited; otherwise the
\* identity wrapper is taken, the tools are registered and createServer returns
ServerStart ==
    /\ server.pc = "start"
    /\ IF server.enabled
       THEN /\ server' = [server EXCEPT !.pc = "metricsInit", !.metricsCollector = TRUE]
            /\ focus' = "metrics"
       ELSE /\ server' = [server EXCEPT !.pc = "done",
                                        !.tools = registerTools(wrapToolFor(server.enabled))]
            /\ focus' = focus
    /\ UNCHANGED <<now, disk, maxSizeBytes, metricsVars, issuesVars, loaded, lastCall,
                   storeVars, lastWrapped, trim>>

\* line 50 resolves: the wrapper is created, the issue collector is
\* constructed and its initialize() is awaited
ServerMetricsReady ==
    /\ server.pc = "metricsInit"
    /\ awaited(initPc)
    /\ server' = [server EXCEPT !.pc = "issuesInit", !.issueCollector = TRUE]
    /\ focus' = "issues"
    /\ UNCHANGED <<now, disk, maxSizeBytes, metricsVars, issuesVars, loaded, lastCall,
                   storeVars, lastWrapped, trim>>

\* line 55 resolves: report_issue and the tools are registered and
\* createServer returns; from here on the wrapped tools can be called
ServerIssuesReady ==
    /\ server.pc = "issuesInit"
    /\ awaited(issuesInitPc)
    /\ server' = [server EXCEPT
                     !.pc = "done",
                     !.tools = {ReportIssueTool} \cup registerTools(wrapToolFor(server.enabled))]
    /\ focus' = "metrics"
    /\ UNCHANGED <<now, disk, maxSizeBytes, metricsVars, issuesVars, loaded, lastCall,
                   storeVars, lastWrapped, trim>>

\* A client calls a registered tool: the wrapped handler, or with the
\* identity wrapper the tool's own handler
ServerToolCall(tool, duration, returned) ==
    /\ server.pc = "done"
    /\ \E t \in server.tools :
          /\ t.name = tool
          /\ IF t.wrapped
             THEN WrappedCall(tool, duration, returned)
             ELSE /\ lastCall.n < MaxRecords
                  /\ lastCall' = [op |-> "tool",
                                  result |-> IF returned THEN "returned" ELSE "threw",
                                  n |-> lastCall.n + 1]
                  /\ UNCHANGED <<focus, now, disk, maxSizeBytes, metricsVars, issuesVars,
                                 loaded, storeVars, lastWrapped, auxVars>>

\* A client calls report_issue
ServerReportIssueCall(params, random) ==
    /\ server.pc = "done"
    /\ ReportIssueTool \in server.tools
    /\ ReportIssueHandler(params, random)

NextServer ==
    \/ ServerStart
    \/ \E fails \in BOOLEAN : InitializeFile(fails)
    \/ \E readFails \in BOOLEAN : InitializeLoad(readFails)
    \/ ServerMetricsReady
    \/ \E fails \in BOOLEAN : IssueInitializeFile(fails)
    \/ \E readFails \in BOOLEAN : IssueInitializeLoad(readFails)
    \/ ServerIssuesReady
    \/ \E tool \in ToolNames, duration \in Durations, returned \in BOOLEAN :
          ServerToolCall(tool, duration, returned)
    \/ \E params \in ReportInputs, random \in RandomSuffixes :
          ServerReportIssueCall(params, random)
    \/ \E k \in 1..MaxRecords : FlushStart(k)
    \/ \E k \in 1..MaxRecords : FlushSerialise(k)
    \/ \E k \in 1..MaxRecords, ok \in BOOLEAN : FlushWrite(k, ok)

SpecServer == InitServer /\ [][NextServer]_vars

-----------------------------------------------------------------------------
(* metrics/storage.ts: trimInvocationsForSize on its own *)

MaxTrimLen == 9

\* The k-th oldest invocation carries k as its duration
TrimInvocations(n, tools) ==
    [k \in 1..n |-> PriorInvocation(tools[1 + (k % Len(tools))], k, k % 3 # 0)]

TrimDocuments ==
    {[createEmptyMetricsData(ServerName, 0) EXCEPT
          !.total_invocations = n + extra,
          !.tool_stats = IF extra > 0 THEN PriorMetrics.tool_stats ELSE @,
          !.invocations = TrimInvocations(n, tools)] :
       n \in 0..MaxTrimLen, tools \in {<<"echo">>, <<"echo", "search">>},
       extra \in {0, 2}}

TrimCallLimits ==
    {0, 150, SmallMaxSizeBytes, 700, 900, DefaultMaxSizeBytes}

\* trimInvocationsForSize(data, maxSizeBytes) is called (original and input
\* are history: the document of the first call and of the current one)
InitTrim ==
    /\ focus = "trim"
    /\ now = 1
    /\ disk = [p \in Paths |-> Absent]
    /\ maxSizeBytes = DefaultMaxSizeBytes
    /\ CollectorsNew
    /\ styleFiles = [s \in Scopes |-> Absent]
    /\ StoreNew
    /\ lastWrapped = NoWrapped
    /\ server = NoServer
    /\ \E d \in TrimDocuments, maxSize \in TrimCallLimits :
          trim = [pc |-> "loop", call |-> 1, original |-> d, input |-> d,
                  data |-> d, maxSizeBytes |-> maxSize]

\* One pass of the while loop
TrimLoop ==
    /\ trim.pc = "loop"
    /\ trimContinues(trim.data, trim.maxSizeBytes)
    /\ trim' = [trim EXCEPT !.data = trimOnce(@)]
    /\ UNCHANGED <<focus, now, disk, maxSizeBytes, metricsVars, issuesVars, loaded,
                   lastCall, storeVars, lastWrapped, server>>

\* The loop test fails: return data
TrimReturn ==
    /\ trim.pc = "loop"
    /\ ~trimContinues(trim.data, trim.maxSizeBytes)
    /\ trim' = [trim EXCEPT !.pc = "returned"]
    /\ UNCHANGED <<focus, now, disk, maxSizeBytes, metricsVars, issuesVars, loaded,
                   lastCall, storeVars, lastWrapped, server>>

\* trimInvocationsForSize(result, maxSizeBytes): the function is applied to
\* what it returned
TrimAgain ==
    /\ trim.pc = "returned"
    /\ trim.call = 1
    /\ trim' = [trim EXCEPT !.pc = "loop", !.call = 2, !.input = trim.data]
    /\ UNCHANGED <<focus, now, disk, maxSizeBytes, metricsVars, issuesVars, loaded,
                   lastCall, storeVars, lastWrapped, server>>

NextTrim == TrimLoop \/ TrimReturn \/ TrimAgain

SpecTrim == InitTrim /\ [][NextTrim]_vars

\* The loop is straight-line code: a call that can take a step takes it
SpecTrimFair == SpecTrim /\ WF_vars(NextTrim)

-----------------------------------------------------------------------------
(* styles/config.ts: the operations *)

\* A process that uses the style store; its collectors stay as constructed
InitStyles ==
    /\ focus = "styles"
    /\ now = 1
    /\ disk = [p \in Paths |-> Absent]
    /\ maxSizeBytes = DefaultMaxSizeBytes
    /\ CollectorsNew
    /\ styleFiles \in [Scopes -> {Absent, Json(GlobalPrior), Json(ProjectPrior)}]
    /\ \A s \in Scopes : styleFiles[s] \in StyleFileChoices(s)
    /\ StoreNew
    /\ lastWrapped = NoWrapped
    /\ server = NoServer
    /\ trim = NoTrim

\* saveStyle, deleteStyle, setFolderStyle, removeFolderStyle up to the await
\* in writeConfigFile: the config is read, the early return is taken or the
\* config is changed in place, and the call suspends on ensureDir.  A config
\* that came from the catch of readConfigFile is changed inside DEFAULT_CONFIG.
\* (read and overlapped are history: the file content the call read, and
\* whether another mutation was in flight at any time of this one.)
StyleCall(call) ==
    /\ focus = "styles"
    /\ styleCalls < MaxStyleCalls
    /\ Len(inFlight) < MaxInFlight
    /\ styleCalls' = styleCalls + 1
    /\ LET r == readConfigFile(styleFiles[call.scope]) IN
       IF ~proceeds(call, r.config)
       THEN /\ lastStyle' = [call |-> [op |-> call.op], result |-> "false"]
            /\ UNCHANGED <<styleFiles, DEFAULT_CONFIG, inFlight>>
       ELSE LET changed == mutate(call, r.config) IN
            /\ DEFAULT_CONFIG' = IF r.shared THEN changed ELSE DEFAULT_CONFIG
            /\ inFlight' = Append([j \in DOMAIN inFlight |->
                                      [inFlight[j] EXCEPT !.overlapped = TRUE]],
                   [call |-> call, shared |-> r.shared,
                    config |-> IF r.shared THEN EmptyConfig ELSE changed,
                    read |-> styleFiles[call.scope],
                    overlapped |-> inFlight # << >>,
                    st |-> "dir", content |-> EmptyConfig])
            /\ UNCHANGED <<styleFiles, lastStyle>>
    /\ UNCHANGED <<focus, now, disk, maxSizeBytes, metricsVars, issuesVars, loaded,
                   lastCall, lastWrapped, auxVars, auxVars>>

\* writeConfigFile after ensureDir: JSON.stringify(config, null, 2) reads the
\* config as it is now, and writeFile is awaited
StyleSerialise(k) ==
    /\ focus = "styles" /\ k \in DOMAIN inFlight
    /\ inFlight[k].st = "dir"
    /\ inFlight' = [inFlight EXCEPT
                      ![k].st = "write",
                      ![k].content = IF inFlight[k].shared THEN DEFAULT_CONFIG
                                     ELSE inFlight[k].config]
    /\ UNCHANGED <<focus, now, disk, maxSizeBytes, metricsVars, issuesVars, loaded,
                   lastCall, lastWrapped, auxVars, styleFiles, DEFAULT_CONFIG, styleCalls, lastStyle>>

\* writeFile settles: the scope's file holds the serialised config and the
\* call returns, or writeFile failed and the call throws
StyleWrite(k, ok) ==
    /\ focus = "styles" /\ k \in DOMAIN inFlight
    /\ inFlight[k].st = "write"
    /\ styleFiles' = IF ok
                     THEN [styleFiles EXCEPT ![inFlight[k].call.scope] =
                                                 Json(inFlight[k].content)]
                     ELSE styleFiles
    /\ inFlight' = RemoveAt(inFlight, k)
    /\ lastStyle' = [call |-> [op |-> inFlight[k].call.op],
                     result |-> IF ok THEN returnValue(inFlight[k].call) ELSE "threw",
                     overwrote |-> ok /\ styleFiles[inFlight[k].call.scope] # inFlight[k].read]
    /\ UNCHANGED <<focus, now, disk, maxSizeBytes, metricsVars, issuesVars, loaded,
                   lastCall, lastWrapped, auxVars, DEFAULT_CONFIG, styleCalls>>

\* The user removes a scope's file, or replaces it by a config or by text
\* that is no JSON
EditFile(scope, file) ==
    /\ focus = "styles"
    /\ styleCalls < MaxStyleCalls
    /\ styleCalls' = styleCalls + 1
    /\ file # styleFiles[scope]
    /\ styleFiles' = [styleFiles EXCEPT ![scope] = file]
    /\ UNCHANGED <<focus, now, disk, maxSizeBytes, metricsVars, issuesVars, loaded,
                   lastCall, lastWrapped, auxVars, DEFAULT_CONFIG, inFlight, lastStyle>>

\* getMergedConfig(): reads the global file, then the project file
GetMergedConfig ==
    /\ focus = "styles"
    /\ styleCalls < MaxStyleCalls
    /\ styleCalls' = styleCalls + 1
    /\ lastStyle' = [call |-> [op |-> "getMergedConfig"], result |-> mergedNow,
                     global |-> readConfigFile(styleFiles["global"]).config,
                     project |-> readConfigFile(styleFiles["project"]).config]
    /\ UNCHANGED <<focus, now, disk, maxSizeBytes, metricsVars, issuesVars, loaded,
                   lastCall, lastWrapped, auxVars, styleFiles, DEFAULT_CONFIG, inFlight>>

\* getStyleForFolder(folderPath)
GetStyleForFolder(folderPath) ==
    /\ focus = "styles"
    /\ styleCalls < MaxStyleCalls
    /\ styleCalls' = styleCalls + 1
    /\ lastStyle' = [call |-> [op |-> "getStyleForFolder", folderPath |-> folderPath],
                     result |-> getStyleForFolder(mergedNow, folderPath),
                     merged |-> mergedNow]
    /\ UNCHANGED <<focus, now, disk, maxSizeBytes, metricsVars, issuesVars, loaded,
                   lastCall, lastWrapped, auxVars, styleFiles, DEFAULT_CONFIG, inFlight>>

NextStyles ==
    \/ \E call \in StyleCalls : StyleCall(call)
    \/ \E k \in 1..MaxInFlight : StyleSerialise(k)
    \/ \E k \in 1..MaxInFlight, ok \in BOOLEAN : StyleWrite(k, ok)
    \/ \E scope \in Scopes :
          \E file \in StyleFileChoices(scope) \cup {Garbage} : EditFile(scope, file)
    \/ GetMergedConfig
    \/ \E folderPath \in QueryPaths : GetStyleForFolder(folderPath)

SpecStyles == InitStyles /\ [][NextStyles]_vars

\* A process that starts with no config file, makes only the four mutating
\* calls, and whose writes all succeed
InitStylesFresh == InitStyles /\ \A s \in Scopes : styleFiles[s] = Absent

NextStylesFresh ==
    \/ \E call \in StyleCalls : StyleCall(call)
    \/ \E k \in 1..MaxInFlight : StyleSerialise(k)
    \/ \E k \in 1..MaxInFlight : StyleWrite(k, TRUE)

SpecStylesFresh == InitStylesFresh /\ [][NextStylesFresh]_vars

-----------------------------------------------------------------------------
(* Properties *)

\* The document initialize installed was the empty one
StartedEmpty ==
    /\ initialized
    /\ loaded.total_invocations = 0
    /\ loaded.tool_stats_defined
    /\ DOMAIN loaded.tool_stats = {}
    /\ loaded.invocations = << >>

RECURSIVE CallsOf(_, _)
CallsOf(t, invs) ==
    IF invs = << >> THEN 0
    ELSE (IF Head(invs).tool = t THEN 1 ELSE 0) + CallsOf(t, Tail(invs))

RECURSIVE DurationOf(_, _)
DurationOf(t, invs) ==
    IF invs = << >> THEN 0
    ELSE (IF Head(invs).tool = t THEN Head(invs).duration_ms ELSE 0)
         + DurationOf(t, Tail(invs))

\* a is x / n rounded to the nearest integer, halves up: a - 1/2 <= x/n < a + 1/2
IsRounded(a, x, n) == 2 * a * n - n <= 2 * x /\ 2 * x < 2 * a * n + n

\* Some flush has trimmed: the sequence is shorter than what was loaded and recorded
Trimmed == Len(data.invocations) < Len(loaded.invocations) + Len(recorded)

\* C1: on a collector whose ledger started empty, tool_stats[t] counts every
\* record of t made so far (call_count), sums their durations
\* (total_duration_ms) and holds their rounded mean (avg_duration_ms),
\* whatever the flushes trimmed from the invocation sequence.
C1_StatsAreLifetimeTotals ==
    StartedEmpty =>
        \A t \in ToolNames :
            IF CallsOf(t, recorded) = 0
            THEN t \notin DOMAIN data.tool_stats
            ELSE /\ t \in DOMAIN data.tool_stats
                 /\ data.tool_stats[t].call_count = CallsOf(t, recorded)
                 /\ data.tool_stats[t].total_duration_ms = DurationOf(t, recorded)
                 /\ IsRounded(data.tool_stats[t].avg_duration_ms,
                              DurationOf(t, recorded), CallsOf(t, recorded))

\* echo was recorded with 1 ms and 2 ms, the mean 1.5 is held as 2, and a
\* flush has trimmed the sequence
C1_Witness ==
    /\ StartedEmpty
    /\ Trimmed
    /\ "echo" \in DOMAIN data.tool_stats
    /\ data.tool_stats["echo"].call_count = 2
    /\ data.tool_stats["echo"].total_duration_ms = 3
    /\ data.tool_stats["echo"].avg_duration_ms = 2

StatField(d, t, f) ==
    IF d.tool_stats_defined /\ t \in DOMAIN d.tool_stats THEN d.tool_stats[t][f] ELSE 0

\* C2: on a collector whose ledger started empty, every tool_stats entry has
\* call_count = success_count + error_count in every state, and a record
\* adds one to success_count alone when it succeeded and to error_count
\* alone when it failed.
C2_CountsSplitByOutcome ==
    /\ [](StartedEmpty =>
            \A t \in DOMAIN data.tool_stats :
                data.tool_stats[t].call_count =
                    data.tool_stats[t].success_count + data.tool_stats[t].error_count)
    /\ [][(StartedEmpty /\ recorded' # recorded) =>
            LET inv == recorded'[Len(recorded')] IN
            /\ StatField(data', inv.tool, "success_count") =
                 StatField(data, inv.tool, "success_count") + (IF inv.success THEN 1 ELSE 0)
            /\ StatField(data', inv.tool, "error_count") =
                 StatField(data, inv.tool, "error_count") + (IF inv.success THEN 0 ELSE 1)]_vars

\* search was recorded once with success and once with failure
C2_Witness ==
    /\ StartedEmpty
    /\ "search" \in DOMAIN data.tool_stats
    /\ data.tool_stats["search"].success_count = 1
    /\ data.tool_stats["search"].error_count = 1
    /\ data.tool_stats["search"].call_count = 2

\* A step in which record (report) got past its guard
RecordAccepted == recorded' # recorded
ReportAccepted == lastCall' # lastCall /\ lastCall'.op = "report" /\ lastCall'.result = "returned"

TrimLimits == {0, 300, SmallMaxSizeBytes, 800, DefaultMaxSizeBytes}

OnlyInvocationsDiffer(d, e) == e = [d EXCEPT !.invocations = e.invocations]

\* A step in which the k-th flush ran its trim
FlushTrims(k) ==
    /\ k \in DOMAIN writeQueue
    /\ writeQueue[k].st = "queued"
    /\ writeQueue'[k].st = "dir"

\* C4: trimInvocationsForSize, for every limit and on every document the
\* collector holds, returns the document with nothing but the invocation
\* sequence changed; so does the trim step of every flush.
C4_TrimTouchesOnlyInvocations ==
    [][/\ \A m \in TrimLimits :
             OnlyInvocationsDiffer(data, trimInvocationsForSize(data, m))
       /\ \A k \in 1..MaxRecords :
             FlushTrims(k) => OnlyInvocationsDiffer(data, data')]_vars

\* A flush has trimmed a document that has statistics for both tools
C4_Witness ==
    /\ Trimmed
    /\ DOMAIN data.tool_stats = ToolNames
    /\ \E k \in DOMAIN writeQueue : writeQueue[k].st = "dir"

\* C5: after a report the sequence holds at most MAX_ISSUES issues with the
\* new one first; a report made while MAX_ISSUES are held drops the last
\* (oldest) one and keeps the other MAX_ISSUES - 1 in order behind the new
\* one.
C5_IssuesCapped ==
    /\ []((lastCall.op = "report" /\ lastCall.result = "returned") =>
             Len(issuesData.issues) <= MAX_ISSUES)
    /\ [][ReportAccepted =>
            LET old == issuesData.issues
                new == issuesData'.issues
            IN  /\ Len(new) <= MAX_ISSUES
                /\ new[1] = lastCall'.issue
                /\ Len(old) = MAX_ISSUES =>
                      /\ Len(new) = MAX_ISSUES
                      /\ \A i \in 1..(MAX_ISSUES - 1) : new[i + 1] = old[i]]_vars

\* 100 issues were loaded and one was reported: the oldest is gone and the
\* second oldest is last
C5_Witness ==
    /\ lastCall.op = "report" /\ lastCall.result = "returned"
    /\ issuesData.total_issues = MAX_ISSUES + 1
    /\ Len(issuesData.issues) = MAX_ISSUES
    /\ issuesData.issues[MAX_ISSUES] = OldIssue(MAX_ISSUES - 1)
    /\ issuesData.issues[1] = lastCall.issue

Queues == {writeQueue, issuesWriteQueue}

\* C6: in each collector's queue at most one flush is between its start and
\* its settling, and a flush that has started has every earlier flush of the
\* queue settled (resolved or failed).
C6_FlushesAreSerial ==
    \A q \in Queues :
        /\ Cardinality({k \in DOMAIN q : Running(q[k])}) <= 1
        /\ \A k \in DOMAIN q :
              q[k].st # "queued" => \A j \in 1..(k - 1) : Settled(q[j])

\* The second flush is writing after the first one failed
C6_Witness ==
    /\ Len(writeQueue) = 2
    /\ writeQueue[1].st = "failed"
    /\ writeQueue[2].st = "write"

\* C7 (as claimed): the invocation sequence a flush serialises is the one
\* its trim step left.
C7_WritesTrimmedSnapshot ==
    \A k \in DOMAIN writeQueue :
        writeQueue[k].st = "write" =>
            writeQueue[k].content.invocations = writeQueue[k].snap

\* A step in which the k-th flush of q fails
FlushFails(q, k) ==
    /\ k \in DOMAIN q
    /\ q[k].st = "write"
    /\ q'[k].st = "failed"

\* C8: a failing write changes nothing in memory and is not seen by a caller
\* (the last call's outcome stands); the flush queued behind a failed one can
\* start; and the flush that runs serialises the document as it is then.
C8_FailedWriteIsSwallowed ==
    /\ [][(\E k \in 1..MaxRecords : FlushFails(writeQueue, k)) =>
            /\ data' = data
            /\ recorded' = recorded
            /\ lastCall' = lastCall]_vars
    /\ [][(\E k \in 1..MaxReports : FlushFails(issuesWriteQueue, k)) =>
            /\ issuesData' = issuesData
            /\ lastCall' = lastCall]_vars
    /\ [](\A k \in 2..MaxRecords :
            (k \in DOMAIN writeQueue /\ writeQueue[k].st = "queued"
                /\ writeQueue[k - 1].st = "failed") => ENABLED FlushStart(k))
    /\ [](\A k \in 2..MaxReports :
            (k \in DOMAIN issuesWriteQueue /\ issuesWriteQueue[k].st = "queued"
                /\ issuesWriteQueue[k - 1].st = "failed") => ENABLED IssueFlushStart(k))
    /\ [][\A k \in DOMAIN writeQueue :
            (writeQueue[k].st = "dir" /\ writeQueue'[k].st = "write") =>
                writeQueue'[k].content = data]_vars

\* The first flush failed, the second one ran and the file holds the
\* document with both records
C8_Witness ==
    /\ Len(writeQueue) = 2
    /\ writeQueue[1].st = "failed"
    /\ writeQueue[2].st = "ok"
    /\ Len(recorded) = 2
    /\ data.total_invocations = loaded.total_invocations + 2
    /\ disk[getMetricsFilePath(data.server_name)] = Json(data)

\* C9 (as claimed): record on an initialized collector returns without
\* throwing, whatever document loadMetrics accepted.
C9_RecordNeverThrows ==
    lastCall.op = "record" => lastCall.result # "threw"

\* A step that is a record call on a collector not yet initialized
RecordBeforeInitialize ==
    /\ ~initialized
    /\ lastCall'.n = lastCall.n + 1
    /\ lastCall'.op = "record"

\* C10: record before initialize has finished returns without throwing,
\* leaves the document (invocations, total_invocations, tool_stats,
\* updated_at) as it was and chains no flush.
C10_RecordBeforeInitializeIsNoOp ==
    [][RecordBeforeInitialize =>
         /\ lastCall'.result = "skipped"
         /\ data' = data
         /\ writeQueue' = writeQueue
         /\ disk' = disk]_vars

\* record was called while initialize was between its two awaits
C10_Witness ==
    /\ lastCall.op = "record"
    /\ lastCall.result = "skipped"
    /\ initPc = "load"
    /\ ~initialized

\* A step that is a report call on a collector not yet initialized
ReportBeforeInitialize ==
    /\ ~issuesInitialized
    /\ lastCall'.n = lastCall.n + 1
    /\ lastCall'.op = "report"

\* C11: report before initialize has finished throws and changes nothing:
\* the document (issues, total_issues, updated_at) is as it was, no flush is
\* chained and no file is touched.
C11_ReportBeforeInitializeThrows ==
    [][ReportBeforeInitialize =>
         /\ lastCall'.result = "threw"
         /\ issuesData' = issuesData
         /\ issuesWriteQueue' = issuesWriteQueue
         /\ disk' = disk]_vars

\* report was called while initialize was between its two awaits
C11_Witness ==
    /\ lastCall.op = "report"
    /\ lastCall.result = "threw"
    /\ issuesInitPc = "load"
    /\ ~issuesInitialized

\* What a load of the file at a path returns now
LoadResult(file, readFails, default) ==
    loadOutcome(readAndValidate(file, readFails), default)

Unusable(file) == file.tag \in {"absent", "garbage", "badshape"}

-----------------------------------------------------------------------------
(* The style store *)

\* A step in which a call of op returns
StyleQueryReturns(op) ==
    /\ styleCalls' = styleCalls + 1
    /\ lastStyle'.call.op = op

\* C13: the merged config getMergedConfig returns has, for styles and for
\* folders, the union of the keys of the two configs it read; a key of the
\* project config has the project's value and source "project", also when
\* the global config has the key; a key of the global config alone has the
\* global value and source "global".
C13_MergeIsUnionProjectWins ==
    lastStyle.call.op = "getMergedConfig" =>
        LET g == lastStyle.global
            p == lastStyle.project
            m == lastStyle.result
        IN  /\ DOMAIN m.styles = DOMAIN g.styles \cup DOMAIN p.styles
            /\ DOMAIN m.folders = DOMAIN g.folders \cup DOMAIN p.folders
            /\ DOMAIN m.sources.styles = DOMAIN m.styles
            /\ DOMAIN m.sources.folders = DOMAIN m.folders
            /\ \A k \in DOMAIN p.styles :
                    m.styles[k] = p.styles[k] /\ m.sources.styles[k] = "project"
            /\ \A k \in DOMAIN p.folders :
                    m.folders[k] = p.folders[k] /\ m.sources.folders[k] = "project"
            /\ \A k \in DOMAIN g.styles \ DOMAIN p.styles :
                    m.styles[k] = g.styles[k] /\ m.sources.styles[k] = "global"
            /\ \A k \in DOMAIN g.folders \ DOMAIN p.folders :
                    m.folders[k] = g.folders[k] /\ m.sources.folders[k] = "global"

\* a merge of two configs that define the same style with different tags,
\* the global one defining a second style alone
C13_Witness ==
    /\ lastStyle.call.op = "getMergedConfig"
    /\ \E k \in DOMAIN lastStyle.global.styles \cap DOMAIN lastStyle.project.styles :
          /\ lastStyle.global.styles[k] # lastStyle.project.styles[k]
          /\ lastStyle.result.styles[k] = lastStyle.project.styles[k]
    /\ \E k \in DOMAIN lastStyle.global.styles \ DOMAIN lastStyle.project.styles :
          lastStyle.result.sources.styles[k] = "global"

\* A step in which the k-th flush ends with its file written
FlushSucceeds(k) ==
    /\ k \in DOMAIN writeQueue
    /\ writeQueue[k].st = "write"
    /\ writeQueue'[k].st = "ok"

\* C18 (as claimed): the file a successful flush has written is at most
\* maxSizeBytes long, unless the invocation sequence in it is empty.
C18_FileWithinMaxSize ==
    [][\A k \in 1..MaxRecords :
          FlushSucceeds(k) =>
            LET written == disk'[getMetricsFilePath(writeQueue[k].content.server_name)].doc
            IN  \/ MetricsPrettyLen(written) <= maxSizeBytes
                \/ written.invocations = << >>]_vars

\* Every flush chained so far has written its file
Drained(q) == q # << >> /\ \A k \in DOMAIN q : q[k].st = "ok"

\* C19 (as claimed): once the calls so far are all flushed, every write
\* having succeeded, the collector's file holds the in-memory document.
C19_DrainedFileHoldsDocument ==
    /\ Drained(writeQueue) => disk[getMetricsFilePath(ServerName)] = Json(data)
    /\ Drained(issuesWriteQueue) => disk[getIssuesFilePath(ServerName)] = Json(issuesData)

\* C20 (as claimed): a wrapped call on an initialized collector makes one
\* record: with success and the handler's result when the handler returned,
\* and the result is returned; with failure and the handler's error message
\* when it threw, and that error is rethrown.
C20_WrapperRecordsOnce ==
    (lastWrapped.handler # "none" /\ lastWrapped.initialized) =>
        /\ Len(lastWrapped.records) = 1
        /\ lastWrapped.handler = "returned" =>
              /\ lastWrapped.records[1].success
              /\ lastWrapped.records[1].result = HandlerResult
              /\ lastWrapped.outcome = "returned result"
        /\ lastWrapped.handler = "threw" =>
              /\ ~lastWrapped.records[1].success
              /\ lastWrapped.records[1].error = HandlerError
              /\ lastWrapped.outcome = "rethrew handler error"

\* The normalized path of a query and its ancestors: the prefixes of its parts
Enclosing(folderPath) ==
    LET n == stripTrailingSlashes(folderPath) IN {SubSeq(n, 1, j) : j \in 1..Len(n)}

Longest(paths) == CHOOSE c \in paths : \A d \in paths : Len(d) <= Len(c)

\* the enclosing paths that have an association, and those whose association
\* names a style of the merged config
Associated(config, folderPath) == Enclosing(folderPath) \cap DOMAIN config.folders
Resolving(config, folderPath) ==
    {c \in Associated(config, folderPath) : config.folders[c] \in DOMAIN config.styles}

DeleteStyleDone(k) ==
    /\ k \in DOMAIN inFlight
    /\ inFlight[k].st = "write"
    /\ inFlight[k].call.op = "deleteStyle"
    /\ inFlight' = RemoveAt(inFlight, k)
    /\ lastStyle'.call.op = "deleteStyle"
    /\ lastStyle'.result = "true"
    /\ styleFiles[inFlight[k].call.scope] = inFlight[k].read
    /\ inFlight[k].read.tag = "json"
    /\ inFlight[k].call.name \in DOMAIN inFlight[k].read.doc.styles
    /\ \A j \in DOMAIN inFlight : j # k => inFlight[j] # inFlight[k]

OtherScope(scope) == IF scope = "global" THEN "project" ELSE "global"

\* C16: deleteStyle(name, scope) on a scope whose file holds the style leaves
\* that file with the style gone, the folder associations to name gone, and
\* every other style and folder association as it was; the other scope's
\* file is not touched.
C16_DeleteStyleFrame ==
    [][\A k \in 1..MaxInFlight :
          DeleteStyleDone(k) =>
            LET c == inFlight[k].call
                old == styleFiles[c.scope].doc
                new == styleFiles'[c.scope].doc
            IN  /\ styleFiles'[c.scope].tag = "json"
                /\ DOMAIN new.styles = DOMAIN old.styles \ {c.name}
                /\ \A n \in DOMAIN new.styles : new.styles[n] = old.styles[n]
                /\ DOMAIN new.folders =
                      {f \in DOMAIN old.folders : old.folders[f] # c.name}
                /\ \A f \in DOMAIN new.folders : new.folders[f] = old.folders[f]
                /\ styleFiles'[OtherScope(c.scope)] = styleFiles[OtherScope(c.scope)]]_vars

\* deleteStyle("minimal", "global") took /a -> minimal with it and left bold;
\* the project file still has its own minimal
C16_Witness ==
    /\ lastStyle.call.op = "deleteStyle"
    /\ lastStyle.result = "true"
    /\ styleFiles["global"] =
          Json([styles |-> Put(<< >>, "bold", <<"flat">>), folders |-> << >>])
    /\ styleFiles["project"] = Json(ProjectPrior)

\* A step in which the k-th mutation in flight ends with its write done
StyleWriteDone(k) ==
    /\ k \in DOMAIN inFlight
    /\ inFlight[k].st = "write"
    /\ inFlight' = RemoveAt(inFlight, k)
    /\ lastStyle'.call.op = inFlight[k].call.op
    /\ lastStyle'.result = returnValue(inFlight[k].call)
    /\ \A j \in DOMAIN inFlight : j # k => inFlight[j] # inFlight[k]

\* No other mutation was in flight during the k-th one, and the file is the
\* one it read
Alone(k) ==
    /\ ~inFlight[k].overlapped
    /\ styleFiles[inFlight[k].call.scope] = inFlight[k].read

\* What a scope's file holds, read as a config: nothing when there is no
\* file or no JSON in it
FileConfig(file) == IF file.tag = "json" THEN file.doc ELSE EmptyConfig

\* C17 (as claimed): what getMergedConfig returns is a function of the two
\* files as they are at the call.
C17_MergeIsStateless ==
    [][StyleQueryReturns("getMergedConfig") =>
          lastStyle'.result = getMergedConfig(FileConfig(styleFiles["global"]),
                                              FileConfig(styleFiles["project"]))]_vars

-----------------------------------------------------------------------------
(* createServer *)

\* C21: with metrics disabled createServer constructs no collector, neither
\* initialize runs (no ledger file is read), no ledger file is ever written,
\* report_issue is not registered and no registered tool has the reasoning
\* parameter or a wrapped handler; with metrics enabled both collectors exist
\* and report_issue is registered once createServer has returned.
C21_DisabledLedgerIsAbsent ==
    /\ []((server.pc = "done" /\ ~server.enabled) =>
            /\ ~server.metricsCollector /\ ~server.issueCollector
            /\ initPc = "new" /\ issuesInitPc = "new"
            /\ writeQueue = << >> /\ issuesWriteQueue = << >>
            /\ {t.name : t \in server.tools} = ToolNames
            /\ \A t \in server.tools : ~t.reasoning /\ ~t.wrapped)
    /\ []((server.pc = "done" /\ server.enabled) =>
            /\ server.metricsCollector /\ server.issueCollector
            /\ initialized /\ issuesInitialized
            /\ ReportIssueTool \in server.tools)
    /\ [][(server.pc # "none" /\ ~server.enabled) =>
            (disk' = disk /\ data' = data /\ issuesData' = issuesData)]_vars

\* a tool was called on a server created with metrics disabled
C21_Witness ==
    /\ server.pc = "done"
    /\ ~server.enabled
    /\ lastCall.op = "tool"
    /\ lastCall.n = MaxRecords

-----------------------------------------------------------------------------
(* The style store: scopes and overlap *)

\* C22 (as claimed): from absent files, a mutation of one scope leaves that
\* scope's file with what the file held changed by the call and nothing
\* more, and leaves the other scope's file alone.
C22_ScopesAreIndependent ==
    [][\A k \in 1..MaxInFlight :
          (StyleWriteDone(k) /\ Alone(k)) =>
            LET c == inFlight[k].call IN
            /\ styleFiles'[c.scope] = Json(mutate(c, FileConfig(styleFiles[c.scope])))
            /\ styleFiles'[OtherScope(c.scope)] = styleFiles[OtherScope(c.scope)]]_vars

\* the call's own change is in the config
Applied(call, config) ==
    CASE call.op = "saveStyle" ->
            call.name \in DOMAIN config.styles /\ config.styles[call.name] = call.tags
      [] call.op = "deleteStyle" -> call.name \notin DOMAIN config.styles
      [] call.op = "setFolderStyle" ->
            /\ stripTrailingSlashes(call.folderPath) \in DOMAIN config.folders
            /\ config.folders[stripTrailingSlashes(call.folderPath)] = call.styleName
      [] call.op = "removeFolderStyle" ->
            stripTrailingSlashes(call.folderPath) \notin DOMAIN config.folders

-----------------------------------------------------------------------------
(* trimInvocationsForSize as a function *)

TrimWithin(d) == MetricsJsonLen(d) <= trim.maxSizeBytes

\* floor(0.25 * n): the q with 4q <= n < 4(q + 1)
Quarter(n) == CHOOSE q \in 0..n : 4 * q <= n /\ n < 4 * (q + 1)

IsSuffix(s, t) == \E k \in 0..Len(t) : s = SubSeq(t, k + 1, Len(t))

\* a pass of the loop changed the document
TrimPass == trim.pc = "loop" /\ trim'.pc = "loop" /\ trim'.data # trim.data

\* C24: every pass of the loop runs on a document over the limit and leaves
\* the newest n - max(1, floor(0.25 n)) of its n invocations, in order and
\* nothing else changed; the document is at all times the input with a
\* suffix of its invocations; and no pass runs on a document within the limit.
C24_TrimDropsOldestQuarter ==
    /\ [][TrimPass =>
            LET old == trim.data.invocations
                n == Len(old)
                dropped == IF Quarter(n) > 1 THEN Quarter(n) ELSE 1
            IN  /\ ~TrimWithin(trim.data)
                /\ n > 0
                /\ Len(trim'.data.invocations) = n - dropped
                /\ \A i \in 1..(n - dropped) :
                      trim'.data.invocations[i] = old[i + dropped]]_vars
    /\ [](trim.pc # "none" =>
            /\ IsSuffix(trim.data.invocations, trim.input.invocations)
            /\ trim.data = [trim.input EXCEPT !.invocations = trim.data.invocations])
    /\ [][(trim.pc = "loop" /\ TrimWithin(trim.data)) => trim'.data = trim.data]_vars

\* Nine invocations against a limit of 500 bytes: 2, 1, 1, 1, 1 and 1 were
\* dropped and the two newest are returned
C24_Witness ==
    /\ trim.pc = "returned"
    /\ trim.call = 1
    /\ trim.maxSizeBytes = SmallMaxSizeBytes
    /\ Len(trim.input.invocations) = 9
    /\ Len(trim.data.invocations) = 2
    /\ trim.data.invocations[1].duration_ms = 8

\* C25: every call returns, and the document it returns is within the limit
\* or has no invocations.
C25_TrimTerminates ==
    /\ (trim.pc = "loop") ~> (trim.pc = "returned")
    /\ [](trim.pc = "returned" => (TrimWithin(trim.data) \/ trim.data.invocations = << >>))

\* A limit of 0 and a document without invocations: returned as it was, over
\* the limit
C25_Witness ==
    /\ trim.pc = "returned"
    /\ trim.maxSizeBytes = 0
    /\ trim.original.invocations = << >>
    /\ ~TrimWithin(trim.data)

\* C26: a document within the limit is returned unchanged, and a second call
\* on the returned document returns it unchanged.
C26_TrimIdentityAndIdempotent ==
    trim.pc = "returned" =>
        /\ TrimWithin(trim.input) => trim.data = trim.input
        /\ trim.call = 2 => trim.data = trim.input

\* The first call dropped invocations, the second has returned
C26_Witness ==
    /\ trim.pc = "returned"
    /\ trim.call = 2
    /\ Len(trim.data.invocations) > 0
    /\ Len(trim.data.invocations) < Len(trim.original.invocations)

-----------------------------------------------------------------------------
(* initialize and the file it finds *)

MetricsFile == disk[getMetricsFilePath(ServerName)]
IssuesFile == disk[getIssuesFilePath(ServerName)]

\* initialize has returned and nothing has been recorded or reported since
MetricsJustInitialized == initPc = "done" /\ recorded = << >> /\ writeQueue = << >>
IssuesJustInitialized ==
    issuesInitPc = "done" /\ issuesWriteQueue = << >> /\ issuesData.total_issues = 0

\* C27 (as claimed): once initialize has returned and the directory was
\* writable, so that a file exists, the file is a structurally valid document.
C27_InitializeLeavesValidFile ==
    /\ (MetricsJustInitialized /\ MetricsFile # Absent) => MetricsFile.tag = "json"
    /\ (IssuesJustInitialized /\ IssuesFile # Absent) => IssuesFile.tag = "json"

\* C27 (amended): initialize writes a file only where none exists, and what it
\* writes is the empty default document; a file that exists is left as it
\* is, valid or not.  Once initialize has returned, the in-memory document
\* is the document of the file or an empty default.
C27_InitializePersistsOnlyWhenAbsent ==
    /\ [][initPc # "done" =>
            \/ MetricsFile' = MetricsFile
            \/ /\ MetricsFile = Absent
               /\ MetricsFile' = Json(createEmptyMetricsData(ServerName, now))]_vars
    /\ [][issuesInitPc # "done" =>
            \/ IssuesFile' = IssuesFile
            \/ /\ IssuesFile = Absent
               /\ IssuesFile' = Json(createEmptyIssuesData(ServerName, now))]_vars
    /\ [](MetricsJustInitialized =>
            \/ MetricsFile.tag = "json" /\ data = MetricsFile.doc
            \/ \E t \in 0..now : data = createEmptyMetricsData(ServerName, t))
    /\ [](IssuesJustInitialized =>
            \/ IssuesFile.tag = "json" /\ issuesData = IssuesFile.doc
            \/ \E t \in 0..now : issuesData = createEmptyIssuesData(ServerName, t))

\* initialize has returned on a file that does not parse: the collector holds
\* the empty default and the file is still the one that was found
C27_Witness ==
    /\ MetricsJustInitialized
    /\ initialized
    /\ MetricsFile = Garbage
    /\ \E t \in 0..now : data = createEmptyMetricsData(ServerName, t)

\* a call of record or of report is made
CallMade == lastCall'.n = lastCall.n + 1

\* C28: initialize of either collector does not end by throwing; when it has
\* ended the collector is initialized; if no valid file is there afterwards
\* (creating or loading failed) the document is the empty default for
\* ServerName; and every record or report made after it is accepted.
C28_InitializeNeverThrows ==
    /\ [](initPc # "threw" /\ issuesInitPc # "threw")
    /\ [](initPc = "done" => initialized)
    /\ [](issuesInitPc = "done" => issuesInitialized)
    /\ [](MetricsJustInitialized /\ MetricsFile.tag # "json" =>
            \E t \in 0..now : data = createEmptyMetricsData(ServerName, t))
    /\ [](IssuesJustInitialized /\ IssuesFile.tag # "json" =>
            \E t \in 0..now : issuesData = createEmptyIssuesData(ServerName, t))
    /\ [][(CallMade /\ focus = "metrics" /\ initPc = "done") =>
            lastCall'.result # "skipped"]_vars
    /\ [][(CallMade /\ focus = "issues" /\ issuesInitPc = "done") =>
            lastCall'.result = "returned"]_vars

\* The metrics file could not be created; initialize returned, and a record
\* made afterwards was counted
C28_Witness ==
    /\ initPc = "done"
    /\ initialized
    /\ MetricsFile = Absent
    /\ lastCall.op = "record"
    /\ lastCall.result = "returned"
    /\ data.total_invocations = 1
    /\ data.server_name = ServerName

-----------------------------------------------------------------------------
(* The files a collector touches *)

\* what getFilePath() reports for the two collectors
OwnPaths == {getMetricsFilePath(ServerName), getIssuesFilePath(ServerName)}

\* C29 (as claimed): only the files at the paths derived from the
\* constructor's server name are ever created or written; every other path
\* stays without a file.
C29_WritesOnlyOwnFile ==
    \A p \in Paths \ OwnPaths : disk[p] = Absent

-----------------------------------------------------------------------------
(* record and the counters *)

RECURSIVE SumCallCount(_, _)
SumCallCount(stats, tools) ==
    IF tools = {} THEN 0
    ELSE LET n == CHOOSE n \in tools : TRUE IN
         stats[n].call_count + SumCallCount(stats, tools \ {n})

Counted(d) ==
    /\ d.tool_stats_defined
    /\ SumCallCount(d.tool_stats, DOMAIN d.tool_stats) = d.total_invocations
    /\ Len(d.invocations) <= d.total_invocations

\* C30: on a ledger that started empty, the document in memory and every
\* document a flush has serialised have call_count summing to
\* total_invocations and at most total_invocations entries in the sequence.
C30_CallCountsSumToTotal ==
    (focus = "metrics" /\ StartedEmpty) =>
        /\ Counted(data)
        /\ \A k \in DOMAIN writeQueue :
              writeQueue[k].content # NoContent => Counted(writeQueue[k].content)

\* Two records on an empty ledger with the small limit: a flush has trimmed
\* the sequence and is about to write a document with both calls counted
C30_Witness ==
    /\ focus = "metrics"
    /\ StartedEmpty
    /\ initPc = "done"
    /\ data.total_invocations = 2
    /\ Len(data.invocations) < 2
    /\ \E k \in DOMAIN writeQueue :
          /\ writeQueue[k].content # NoContent
          /\ writeQueue[k].content.total_invocations = 2

-----------------------------------------------------------------------------
(* report and the report_issue tool *)

\* a call of report has returned an issue
ReportReturned ==
    CallMade /\ lastCall'.op = "report" /\ lastCall'.result = "returned"

\* the issue returned is the head of the sequence and carries what was passed
ReturnedIssueIsNewest ==
    LET issue == lastCall'.issue
        params == lastCall'.params
    IN  /\ issuesData'.issues # << >>
        /\ issuesData'.issues[1] = issue
        /\ DOMAIN issue = DOMAIN params \cup {"id", "created_at"}
        /\ \A k \in DOMAIN params : issue[k] = params[k]

\* C32 (as claimed): the returned issue is first, carries the fields passed
\* in, and all earlier issues follow it in their previous order.
C32_AllEarlierIssuesFollow ==
    [][ReportReturned =>
          /\ ReturnedIssueIsNewest
          /\ Tail(issuesData'.issues) = issuesData.issues]_vars

\* C32 (amended): the returned issue is first and carries the fields passed
\* in; the earlier issues follow it in their previous order as far as the
\* cap of MAX_ISSUES entries allows, the oldest being dropped beyond it.
C32_EarlierIssuesFollowWithinCap ==
    [][ReportReturned =>
          LET earlier == issuesData.issues
              room == IF Len(earlier) < MAX_ISSUES THEN Len(earlier) ELSE MAX_ISSUES - 1
          IN  /\ ReturnedIssueIsNewest
              /\ Tail(issuesData'.issues) = SubSeq(earlier, 1, room)]_vars

\* A feature request with every optional field was reported on a collector
\* that held MAX_ISSUES issues: it is first, and the oldest issue is gone
C32_Witness ==
    /\ lastCall.op = "report"
    /\ lastCall.result = "returned"
    /\ OptionalFields \subseteq DOMAIN lastCall.issue
    /\ issuesData.issues[1] = lastCall.issue
    /\ Len(issuesData.issues) = MAX_ISSUES
    /\ issuesData.total_issues = MAX_ISSUES + 1

\* the report_issue handler has been called
ToolCalled == CallMade /\ lastCall'.op = "report_issue"

\* C36: a call of the report_issue handler always returns a result; when
\* report threw, the result is flagged isError, its text carries the
\* message of the error, and the collector is as it was (nothing was
\* reported, nothing queued); when report returned, it was called once.
C36_ReportErrorIsReturned ==
    /\ [](lastCall.op = "report_issue" => lastCall.result = "returned")
    /\ [][(ToolCalled /\ ~issuesInitialized) =>
            /\ lastCall'.isError
            /\ \E i \in DOMAIN lastCall'.text : lastCall'.text[i] = NotInitializedMessage
            /\ issuesData' = issuesData
            /\ issuesWriteQueue' = issuesWriteQueue]_vars
    /\ [][(ToolCalled /\ issuesInitialized) =>
            /\ ~lastCall'.isError
            /\ issuesData'.total_issues = issuesData.total_issues + 1
            /\ Len(issuesWriteQueue') = Len(issuesWriteQueue) + 1]_vars

\* The handler was called before initialize had finished and returned the
\* failure text
C36_Witness ==
    /\ lastCall.op = "report_issue"
    /\ lastCall.result = "returned"
    /\ lastCall.isError
    /\ lastCall.text = <<"Failed to save issue report: ", NotInitializedMessage>>
    /\ issuesData.total_issues = 0

-----------------------------------------------------------------------------
(* createServer: initialize before registration *)

\* C31: in createServer, a wrapped tool is registered only after initialize
\* of the metrics collector has ended, and report_issue only after
\* initialize of the issue collector has ended; no wrapped call has met an
\* uninitialized metrics collector and no report_issue call has had report
\* throw.
C31_InitializedBeforeRegistered ==
    server.pc # "none" =>
        /\ (\E t \in server.tools : t.wrapped) => (initPc = "done" /\ initialized)
        /\ ReportIssueTool \in server.tools => (issuesInitPc = "done" /\ issuesInitialized)
        /\ lastWrapped.handler # "none" => lastWrapped.initialized
        /\ lastCall.op = "report_issue" => ~lastCall.isError

\* With metrics enabled createServer has returned; a wrapped tool was called
\* and recorded, then report_issue was called and reported
C31_Witness ==
    /\ server.pc = "done"
    /\ server.enabled
    /\ lastWrapped.handler = "returned"
    /\ lastWrapped.initialized
    /\ lastWrapped.records # << >>
    /\ lastCall.op = "report_issue"
    /\ ~lastCall.isError
    /\ issuesData.total_issues = 1

-----------------------------------------------------------------------------
(* Folder paths and their trailing slashes *)

\* a path with one and with two trailing slashes
SlashVariants(p) == {WithSlash(p), WithSlash(WithSlash(p))}

EndsWithSlash(p) == Len(p) > 1 /\ p[Len(p)] = ""

\* C33: on the config of either file setFolderStyle and removeFolderStyle,
\* and on the merged config getStyleForFolder, do the same for a path and
\* for that path with trailing slashes; and no folder key of a config file
\* ends with a slash.
C33_TrailingSlashesAreStripped ==
    /\ \A p \in {PathA, PathAB, PathAX} : \A q \in SlashVariants(p) :
         LET set(x) == [op |-> "setFolderStyle", scope |-> "project",
                        folderPath |-> x, styleName |-> "bold"]
             remove(x) == [op |-> "removeFolderStyle", scope |-> "project",
                           folderPath |-> x]
         IN  /\ \A s \in Scopes :
                  LET config == FileConfig(styleFiles[s]) IN
                  /\ mutate(set(q), config) = mutate(set(p), config)
                  /\ proceeds(remove(q), config) = proceeds(remove(p), config)
                  /\ mutate(remove(q), config) = mutate(remove(p), config)
             /\ getStyleForFolder(mergedNow, q) = getStyleForFolder(mergedNow, p)
    /\ \A s \in Scopes :
         \A key \in DOMAIN FileConfig(styleFiles[s]).folders : ~EndsWithSlash(key)

\* setFolderStyle("/a/b/", .., "global") has written: the key is /a/b
C33_Witness ==
    /\ lastStyle.call.op = "setFolderStyle"
    /\ lastStyle.result = "void"
    /\ styleFiles["global"].tag = "json"
    /\ PathAB \in DOMAIN styleFiles["global"].doc.folders
    /\ WithSlash(PathAB) \notin DOMAIN styleFiles["global"].doc.folders

-----------------------------------------------------------------------------
(* deleteStyle and removeFolderStyle: the value returned *)

\* C34 (as claimed, the "only when" half): a deleteStyle that went past its
\* early return, and so writes the file and returns true, read a file whose
\* styles held the name; a removeFolderStyle that went past it read a file
\* whose folders held the normalized path.
C34_TrueOnlyWhenPresent ==
    \A k \in DOMAIN inFlight :
        LET c == inFlight[k].call
            before == FileConfig(inFlight[k].read)
        IN  /\ c.op = "deleteStyle" => c.name \in DOMAIN before.styles
            /\ c.op = "removeFolderStyle" =>
                  stripTrailingSlashes(c.folderPath) \in DOMAIN before.folders

-----------------------------------------------------------------------------
(* The wrapper and the reasoning key *)

WithoutReasoning(given, args) ==
    /\ DOMAIN given = DOMAIN args \ {"reasoning"}
    /\ \A k \in DOMAIN given : given[k] = args[k]

\* C35: in every wrapped call the arguments passed to the original handler,
\* and the argument map of every invocation the call recorded, are the
\* caller's arguments without the reasoning key, and the reasoning is the
\* invocation's reasoning field.
C35_ReasoningOnlyInItsField ==
    lastWrapped.handler # "none" =>
        /\ WithoutReasoning(lastWrapped.toolArgs, lastWrapped.args)
        /\ \A i \in DOMAIN lastWrapped.records :
              /\ WithoutReasoning(lastWrapped.records[i].arguments, lastWrapped.args)
              /\ lastWrapped.records[i].reasoning = lastWrapped.args.reasoning
        /\ \A i \in DOMAIN data.invocations :
              "reasoning" \notin DOMAIN ArgumentsOf(data.invocations[i])

\* echo was called with {message, reasoning} and recorded with {message}
C35_Witness ==
    /\ lastWrapped.handler = "returned"
    /\ lastWrapped.initialized
    /\ "reasoning" \in DOMAIN lastWrapped.args
    /\ Len(lastWrapped.records) = 1
    /\ DOMAIN lastWrapped.records[1].arguments = {"message"}
    /\ lastWrapped.records[1].reasoning = "r"
    /\ data.invocations # << >>
    /\ data.invocations[Len(data.invocations)] = lastWrapped.records[1]

====
